---- MODULE Spec2Model ----
(***************************************************************************)
(* Verification model of the Preqin data layer (backend/preqin).           *)
(*                                                                         *)
(*  Part I   staged ingestion with checkpoints  (pipelines/excel_ingestion)*)
(*  Part II  bronze -> silver -> gold extraction, linking and quarantine   *)
(*           (pipelines/batch_transforms, pipelines/gold_extraction)       *)
(*                                                                         *)
(* The database is PostgreSQL driven through one SQLAlchemy session per    *)
(* job (autocommit=False): statements run inside the session's open        *)
(* transaction, a statement that fails on the server leaves that           *)
(* transaction aborted until it is rolled back, and closing the session    *)
(* rolls back whatever is uncommitted.                                     *)
(***************************************************************************)
EXTENDS Integers, Sequences, FiniteSets, TLC

(***************************************************************************)
(* Bounds of the model.                                                    *)
(***************************************************************************)
\* rows per chunk handed to iter_excel_chunks (the program's default is 10000)
chunk_size == 2
\* data rows of every sheet of a workbook (row 1 is the header)
NumRows == 3
\* invocations of an ingest function in one behaviour
MaxRuns == 3

(***************************************************************************)
(* Part I.  Ingestion & checkpoint store                                   *)
(***************************************************************************)
VARIABLES
    staging,      \* committed rows of the preqin_bronze.*_raw tables
    checkpoint,   \* committed rows of preqin_bronze.ingestion_checkpoint
    clock,        \* NOW() of the database, one tick per checkpoint write
    session,      \* the job's SQLAlchemy session: pending rows, aborted flag
    pc,           \* position of the ingest function
    file,         \* which workbook is ingested: "deals" or "gp"
    resume,       \* the resume argument
    run_id,       \* the run id in use
    sheet_idx,    \* index of the sheet being processed
    start_row,    \* start_row of the current sheet
    last_row,     \* last_row of the current sheet
    row_number,   \* row_number of the running iter_excel_chunks generator
    chunk,        \* the chunk last yielded (source row numbers)
    results,      \* results[sheet] of the current invocation
    invocations,  \* number of invocations started so far
    outcome,      \* how the last invocation ended
    failedIds,    \* ids of the rows executed in a chunk whose insert failed
    committedIds  \* ids of the rows of the chunks whose commit returned

ingestVars == <<staging, checkpoint, clock, session, pc, file, resume, run_id,
                sheet_idx, start_row, last_row, row_number, chunk, results,
                invocations, outcome, failedIds, committedIds>>

\* State of Part II (the operations on it are defined in Part II below).
VARIABLES
    bronzeGp,     \* rows of preqin_bronze.gp_preqin_export_raw (the firm sheet)
    silver,       \* the preqin_silver tables: firms, funds, contacts, deals
    gold,         \* the preqin tables: entities, relationships, quarantine
    step,         \* position of run_gold_extraction: 0 idle, else index in Steps
    quarantine_unresolved,  \* the argument of run_gold_extraction
    loads,        \* transform writes to the silver tables so far
    extractions,  \* invocations of run_gold_extraction so far
    failed,       \* steps of the current invocation whose statement raised
    snapshot,     \* the gold tables when the current invocation started
    changed,      \* a silver table was written since the last invocation started
    sameInput,    \* the current invocation reads the silver rows the previous read
    job,          \* how the latest invocation of run_gold_extraction ended
    committed     \* the gold tables when the quarantine step of the run began

goldVars == <<bronzeGp, silver, gold, step, quarantine_unresolved, loads,
              extractions, failed, snapshot, changed, sameInput, job,
              committed>>

\* State of the co-investment analysis (analysis/co_investment.py).
VARIABLES
    dealInvestors,  \* rows of preqin_deal_investor_firm: deal_id, investor_firm_id
    edges,          \* rows of preqin_co_investment_edge
    rebuilds,       \* calls of generate_co_investment_edges so far
    rebuild,        \* the latest call: arguments, how it ended, data unchanged since
    network         \* the latest call of get_network_hops and what it returned

analysisVars == <<dealInvestors, edges, rebuilds, rebuild, network>>

\* State of entity resolution (entity_resolution/firm_linker.py).
VARIABLES
    matches,            \* the match list predict_matches returned
    firm_to_canonical,  \* what cluster_matches returned for it, NULL before
    aliases,            \* rows of the alias table preqin.preqin_firm_alias
    written,            \* the alias INSERTs executed so far: key and confidence
    aliasWrite          \* calls of write_aliases_to_postgres, how the latest ended,
                        \* and the alias rows after the first call

resolutionVars == <<matches, firm_to_canonical, aliases, written, aliasWrite>>

\* State of the search module (search/hybrid_search.py).
VARIABLES
    PGVECTOR_AVAILABLE,  \* the module global _PGVECTOR_AVAILABLE, NULL = None
    extension,           \* whether pg_extension has a row for 'vector'
    docs,                \* rows of preqin.preqin_entity_doc
    probes,              \* availability probes executed since the last reset
    search               \* per request thread: position and locals of hybrid_search

searchVars == <<PGVECTOR_AVAILABLE, extension, docs, probes, search>>

\* State of the cell parsers (pipelines/batch_transforms.py).
VARIABLES
    cell,     \* the value of the cell handed to the parsers
    parseCall, \* the latest parser call: function and how it ended
    parses    \* parser calls so far

parseVars == <<cell, parseCall, parses>>

\* State of one export session's custom columns (clean_data/routes.py).
VARIABLES
    custom_columns,  \* ExportSession.custom_columns as committed: key and name
    request          \* the latest column request and its response

columnVars == <<custom_columns, request>>

\* State of the embedding generation (search/hybrid_search.py).
VARIABLES
    entity_doc,  \* preqin_entity_doc as committed: per document, embedding set
    embedCall    \* position and locals of the generate_embeddings call

embedVars == <<entity_doc, embedCall>>

laterVars == <<parseVars, columnVars, embedVars>>
coreVars == <<ingestVars, goldVars, analysisVars, resolutionVars, searchVars>>

vars == <<coreVars, laterVars>>
nonIngestVars == <<goldVars, analysisVars, resolutionVars, searchVars, laterVars>>
nonGoldVars == <<ingestVars, analysisVars, resolutionVars, searchVars, laterVars>>
nonAnalysisVars == <<ingestVars, goldVars, resolutionVars, searchVars, laterVars>>
nonResolutionVars == <<ingestVars, goldVars, analysisVars, searchVars, laterVars>>
nonSearchVars == <<ingestVars, goldVars, analysisVars, resolutionVars, laterVars>>
nonParseVars == <<coreVars, columnVars, embedVars>>
nonColumnVars == <<coreVars, parseVars, embedVars>>
nonEmbedVars == <<coreVars, parseVars, columnVars>>

\* bound: request threads that run searches concurrently
MaxThreads == 2
Threads == 1..MaxThreads

SilverTables == {"firms", "funds", "contacts", "deals"}
EntityTables == {"firms", "funds", "persons", "companies", "deals"}
LinkTables == {"firm_manages_fund", "person_employment", "deal_target_company",
               "deal_investor_firm"}
GoldTables == EntityTables \cup LinkTables \cup {"quarantine"}

\* Empty schemas, as create_silver_tables and Base.metadata.create_all leave them.
GoldInit ==
    /\ bronzeGp = <<>>
    /\ silver = [t \in SilverTables |-> {}]
    /\ gold = [t \in GoldTables |-> {}]
    /\ step = 0
    /\ quarantine_unresolved = TRUE
    /\ loads = 0
    /\ extractions = 0
    /\ failed = {}
    /\ snapshot = [t \in GoldTables |-> {}]
    /\ changed = FALSE
    /\ sameInput = FALSE
    /\ job = "none"
    /\ committed = [t \in GoldTables |-> {}]

\* No analysis has run: the edge table is as create_all leaves it.
AnalysisInit ==
    /\ dealInvestors = {}
    /\ edges = {}
    /\ rebuilds = 0
    /\ rebuild = [ended |-> "none", fresh |-> FALSE]
    /\ network = [ended |-> "none"]

\* No resolution has run and the alias table is empty.
ResolutionInit ==
    /\ matches = <<>>
    /\ firm_to_canonical = <<>>
    /\ aliases = {}
    /\ written = {}
    /\ aliasWrite = [ended |-> "none", calls |-> 0, first |-> {}]

\* A fresh process: the availability flag is None and no search is running.
SearchIdle ==
    /\ PGVECTOR_AVAILABLE = <<>>
    /\ extension = FALSE
    /\ docs = {}
    /\ probes = 0
    /\ search = [t \in Threads |-> [pc |-> "idle"]]

\* No cell has been parsed.
ParseIdle ==
    /\ cell = <<>>
    /\ parseCall = [fn |-> "none"]
    /\ parses = 0

\* An export session without custom columns and no request in progress.
ColumnIdle ==
    /\ custom_columns = <<>>
    /\ request = [op |-> "none"]

\* No entity documents and no embedding generation under way.
EmbedIdle ==
    /\ entity_doc = <<>>
    /\ embedCall = [pc |-> "idle"]

LaterIdle == ParseIdle /\ ColumnIdle /\ EmbedIdle

\* The parts of the system a specification leaves at rest.
RestInit == ResolutionInit /\ SearchIdle /\ LaterIdle

\* The workbooks: the deals export has one sheet, the GP dataset several.
Files == {"deals", "gp"}
Sheets(f) == IF f = "deals" THEN <<"Sheet1">> ELSE <<"Firms", "Funds">>
SheetNames == {"Sheet1", "Firms", "Funds"}

\* Source row numbers of the data rows of a sheet: the generator counts the
\* header as row 1 and the first data row as row 2.
DataRows == 2..(NumRows + 1)

FreshSession == [pending |-> {}, aborted |-> FALSE]

\* session.commit(): COMMIT of an aborted transaction is a ROLLBACK.
CommitOf(s, durable) == IF s.aborted THEN durable ELSE durable \cup s.pending

\* get_checkpoint: last_row of the key, 0 when there is no checkpoint.
get_checkpoint(rid, f, sh) ==
    LET hit == {c \in checkpoint : c.run_id = rid /\ c.source_file = f
                                   /\ c.source_sheet = sh}
    IN  IF hit = {} THEN 0 ELSE (CHOOSE c \in hit : TRUE).last_row

\* get_last_run_id: run of the most recently updated in_progress checkpoint of
\* the file, 0 (None) when there is none.
get_last_run_id(f) ==
    LET open == {c \in checkpoint : c.source_file = f /\ c.status = "in_progress"}
    IN  IF open = {} THEN 0
        ELSE (CHOOSE c \in open : \A d \in open : d.updated_at <= c.updated_at).run_id

\* save_checkpoint: upsert on (run_id, source_file, source_sheet), then commit.
save_checkpoint(rid, f, sh, lr, st) ==
    /\ checkpoint' =
          {c \in checkpoint : ~(c.run_id = rid /\ c.source_file = f
                                /\ c.source_sheet = sh)}
          \cup {[run_id |-> rid, source_file |-> f, source_sheet |-> sh,
                 last_row |-> lr, status |-> st, updated_at |-> clock]}
    /\ clock' = clock + 1

\* iter_excel_chunks: the rows the generator yields next: it advances
\* row_number over the sheet, skips row_number <= start_row when resuming and
\* yields when chunk_size rows are collected or the sheet ends.
RECURSIVE TakeFrom(_, _)
TakeFrom(n, acc) ==
    IF n > NumRows + 1 \/ Len(acc) >= chunk_size THEN acc
    ELSE IF start_row > 0 /\ n <= start_row THEN TakeFrom(n + 1, acc)
    ELSE TakeFrom(n + 1, Append(acc, n))

NextChunk == TakeFrom(row_number + 1, <<>>)

\* The bronze row insert_bronze_batch builds for source row n (the uuid4 is a
\* token unique to the invocation, sheet and row).
BronzeRow(n) ==
    [id |-> <<invocations, sheet_idx, n>>, run_id |-> run_id,
     source_file |-> file, source_sheet |-> Sheets(file)[sheet_idx],
     source_row_number |-> n]

\* What is durable of a chunk whose k-th INSERT failed: the commit of
\* insert_bronze_batch follows the loop, so it was not reached.
StagedOnFailure_commitPerRecord(rows) == staging \cup rows
StagedOnFailure(rows) == staging

\* Last row the ingest loop records after a committed chunk:
\* chunk[-1].get("_source_row_number", last_row + len(chunk)), where
\* insert_bronze_batch has already popped "_source_row_number" from every
\* record of the chunk, so the default is what get() returns.
TrackedLastRow == last_row + Len(chunk)

IngestInit ==
    /\ staging = {}
    /\ checkpoint = {}
    /\ clock = 1
    /\ session = FreshSession
    /\ pc = "idle"
    /\ file = "deals"
    /\ resume = FALSE
    /\ run_id = 0
    /\ sheet_idx = 1
    /\ start_row = 0
    /\ last_row = 0
    /\ row_number = 1
    /\ chunk = <<>>
    /\ results = [s \in SheetNames |-> "none"]
    /\ invocations = 0
    /\ outcome = "none"
    /\ failedIds = {}
    /\ committedIds = {}

\* Entry of ingest_deals / ingest_gp_firms: a new session, the checkpoint
\* table, and the run to use (the last incomplete run of the file on resume).
StartIngest(f, r) ==
    /\ pc = "idle"
    /\ invocations < MaxRuns
    /\ invocations' = invocations + 1
    /\ file' = f
    /\ resume' = r
    /\ run_id' = IF r /\ get_last_run_id(f) # 0 THEN get_last_run_id(f)
                 ELSE invocations + 1
    /\ session' = FreshSession
    /\ sheet_idx' = 1
    /\ start_row' = 0
    /\ last_row' = 0
    /\ row_number' = 1
    /\ chunk' = <<>>
    /\ results' = [s \in SheetNames |-> "none"]
    /\ outcome' = "running"
    /\ pc' = "sheet"
    /\ UNCHANGED <<staging, checkpoint, clock, failedIds, committedIds>>
    /\ UNCHANGED nonIngestVars

\* Head of the per-sheet loop: ensure_bronze_table (execute + commit, outside
\* the try block) and the sheet's checkpoint lookup; after the last sheet the
\* function returns and the session is closed.
BeginSheet ==
    /\ pc = "sheet"
    /\ IF sheet_idx > Len(Sheets(file))
       THEN /\ pc' = "idle"
            /\ outcome' = "returned"
            /\ session' = FreshSession
            /\ UNCHANGED <<staging, start_row, last_row, row_number, chunk>>
       ELSE IF session.aborted
       THEN \* the CREATE TABLE is refused by the aborted transaction and the
            \* error leaves the function
            /\ pc' = "idle"
            /\ outcome' = "raised"
            /\ session' = FreshSession
            /\ UNCHANGED <<staging, start_row, last_row, row_number, chunk>>
       ELSE /\ staging' = CommitOf(session, staging)
            /\ session' = FreshSession
            /\ start_row' = IF resume
                            THEN get_checkpoint(run_id, file, Sheets(file)[sheet_idx])
                            ELSE 0
            /\ last_row' = start_row'
            /\ row_number' = 1
            /\ chunk' = <<>>
            /\ pc' = "read"
            /\ UNCHANGED outcome
    /\ UNCHANGED <<checkpoint, clock, file, resume, run_id, sheet_idx, results,
                   invocations, failedIds, committedIds>>
    /\ UNCHANGED nonIngestVars

\* One step of "for chunk in iter_excel_chunks(...)".
ReadChunk ==
    /\ pc = "read"
    /\ IF NextChunk = <<>>
       THEN /\ pc' = "complete"
            /\ row_number' = NumRows + 1
            /\ UNCHANGED chunk
       ELSE /\ chunk' = NextChunk
            /\ row_number' = NextChunk[Len(NextChunk)]
            /\ pc' = "insert"
    /\ UNCHANGED <<staging, checkpoint, clock, session, file, resume, run_id,
                   sheet_idx, start_row, last_row, results, invocations,
                   outcome, failedIds, committedIds>>
    /\ UNCHANGED nonIngestVars

\* insert_bronze_batch: one INSERT per record, then one commit.  k is the
\* number of records whose INSERT succeeds; with k < len(chunk) the next INSERT
\* fails on the server.  The error is caught per sheet by the multi-sheet
\* functions and leaves ingest_deals.
InsertBatch(k) ==
    /\ pc = "insert"
    /\ k \in 0..Len(chunk)
    /\ LET rows == {BronzeRow(chunk[i]) : i \in 1..k}
           ids  == {r.id : r \in rows}
       IN IF k = Len(chunk)
          THEN /\ staging' = CommitOf([session EXCEPT !.pending = @ \cup rows], staging)
               /\ session' = FreshSession
               /\ committedIds' = committedIds \cup ids
               /\ last_row' = TrackedLastRow
               /\ pc' = "checkpoint"
               /\ UNCHANGED <<failedIds, results, sheet_idx, outcome>>
          ELSE /\ failedIds' = failedIds \cup ids
               /\ staging' = StagedOnFailure(rows)
               /\ UNCHANGED <<committedIds, last_row>>
               /\ IF file = "deals"
                  THEN /\ session' = FreshSession
                       /\ outcome' = "raised"
                       /\ pc' = "idle"
                       /\ results' = [results EXCEPT ![Sheets(file)[sheet_idx]] = "error"]
                       /\ UNCHANGED sheet_idx
                  ELSE /\ session' = [pending |-> session.pending \cup rows,
                                      aborted |-> TRUE]
                       /\ results' = [results EXCEPT ![Sheets(file)[sheet_idx]] = "error"]
                       /\ sheet_idx' = sheet_idx + 1
                       /\ pc' = "sheet"
                       /\ UNCHANGED outcome
    /\ UNCHANGED <<checkpoint, clock, file, resume, run_id, start_row,
                   row_number, chunk, invocations>>
    /\ UNCHANGED nonIngestVars

\* save_checkpoint(session, run_id, source_file, sheet, last_row) after a chunk.
SaveChunkCheckpoint ==
    /\ pc = "checkpoint"
    /\ save_checkpoint(run_id, file, Sheets(file)[sheet_idx], last_row, "in_progress")
    /\ pc' = "read"
    /\ UNCHANGED <<staging, session, file, resume, run_id, sheet_idx, start_row,
                   last_row, row_number, chunk, results, invocations, outcome,
                   failedIds, committedIds>>
    /\ UNCHANGED nonIngestVars

\* save_checkpoint(..., status="completed") once the generator is exhausted.
MarkComplete ==
    /\ pc = "complete"
    /\ save_checkpoint(run_id, file, Sheets(file)[sheet_idx], last_row, "completed")
    /\ results' = [results EXCEPT ![Sheets(file)[sheet_idx]] = "ok"]
    /\ sheet_idx' = sheet_idx + 1
    /\ pc' = "sheet"
    /\ UNCHANGED <<staging, session, file, resume, run_id, start_row, last_row,
                   row_number, chunk, invocations, outcome, failedIds,
                   committedIds>>
    /\ UNCHANGED nonIngestVars

\* The job is interrupted (process killed): the open transaction is lost.
Interrupt ==
    /\ pc # "idle"
    /\ pc' = "idle"
    /\ outcome' = "killed"
    /\ session' = FreshSession
    /\ UNCHANGED <<staging, checkpoint, clock, file, resume, run_id, sheet_idx,
                   start_row, last_row, row_number, chunk, results, invocations,
                   failedIds, committedIds>>
    /\ UNCHANGED nonIngestVars

IngestNext ==
    \/ \E f \in Files, r \in BOOLEAN : StartIngest(f, r)
    \/ BeginSheet
    \/ ReadChunk
    \/ \E k \in 0..chunk_size : InsertBatch(k)
    \/ SaveChunkCheckpoint
    \/ MarkComplete
    \/ Interrupt

\* Ingestion over an untouched silver and gold layer.
IngestSpecInit == IngestInit /\ GoldInit /\ AnalysisInit /\ RestInit
IngestSpec == IngestSpecInit /\ [][IngestNext]_vars

(***************************************************************************)
(* Properties of Part I                                                    *)
(***************************************************************************)
CurrentSheet == Sheets(file)[sheet_idx]

\* C1: a resumed ingestion never stages a source row that a committed chunk of
\* the same run already staged: per (run_id, source_file, source_sheet) every
\* source row number is staged at most once.
C1_RowStagedAtMostOnce ==
    \A r1, r2 \in staging :
        (/\ r1.run_id = r2.run_id
         /\ r1.source_file = r2.source_file
         /\ r1.source_sheet = r2.source_sheet
         /\ r1.source_row_number = r2.source_row_number) => r1.id = r2.id

\* C2: after every committed chunk the checkpoint of the sheet holds the source
\* row number of the last row of that chunk, in the numbering iter_excel_chunks
\* uses for skipping (pc = "read" with a chunk in hand is the state right after
\* the chunk's checkpoint was saved).
C2_CheckpointIsLastRowOfChunk ==
    (pc = "read" /\ chunk # <<>>) =>
        get_checkpoint(run_id, file, CurrentSheet) = chunk[Len(chunk)]

\* C3: in a multi-sheet ingestion that ran to its end, a sheet whose chunk
\* insert failed does not stop its siblings: every later sheet is ingested to
\* completion, and the failed sheet keeps an in_progress checkpoint that a
\* resume can find.
C3_FailedSheetIsolated ==
    (outcome \in {"returned", "raised"} /\ file = "gp") =>
        \A i \in 1..Len(Sheets(file)) :
            results[Sheets(file)[i]] = "error" =>
                /\ \A j \in (i + 1)..Len(Sheets(file)) :
                      /\ results[Sheets(file)[j]] = "ok"
                      /\ \A n \in DataRows : \E r \in staging :
                            /\ r.run_id = run_id
                            /\ r.source_sheet = Sheets(file)[j]
                            /\ r.source_row_number = n
                /\ \E c \in checkpoint :
                      /\ c.run_id = run_id
                      /\ c.source_file = file
                      /\ c.source_sheet = Sheets(file)[i]
                      /\ c.status = "in_progress"

\* C4: a chunk is staged atomically: no row of a chunk whose insert failed
\* part-way is ever durable, whatever the session does afterwards, and every
\* row of a chunk whose commit returned stays durable.
C4_ChunkAtomic ==
    /\ \A r \in staging : r.id \notin failedIds
    /\ \A i \in committedIds : \E r \in staging : r.id = i

\* C4 witness: a chunk of a resumed sheet failed after some of its INSERTs had
\* run, rows of that sheet committed earlier in the run are durable, and the
\* session went on to the next sheet and ended there.
C4_Witness ==
    /\ outcome = "raised"
    /\ file = "gp"
    /\ \E f \in failedIds, r \in staging :
          /\ f[1] = invocations
          /\ r.run_id = run_id
          /\ r.source_file = file
          /\ r.source_sheet = Sheets(file)[f[2]]

\* The checkpoint rows and the staged rows of one (run, file, sheet).
CheckpointsOf(table, c) ==
    {d \in table : /\ d.run_id = c.run_id
                   /\ d.source_file = c.source_file
                   /\ d.source_sheet = c.source_sheet}
StagedOf(table, c) ==
    {r \in table : /\ r.run_id = c.run_id
                   /\ r.source_file = c.source_file
                   /\ r.source_sheet = c.source_sheet}

\* C27: once the checkpoint of a (run_id, source_file, source_sheet) is
\* completed, no step of a resumed ingestion of that run stages a further
\* row of that sheet or sets its checkpoint back to in_progress.
C27_CompletedSheetUntouched ==
    [][(resume /\ resume') =>
          \A c \in checkpoint :
              (c.status = "completed" /\ c.run_id = run_id') =>
                  /\ StagedOf(staging', c) = StagedOf(staging, c)
                  /\ \A d \in CheckpointsOf(checkpoint', c) :
                        d.status = "completed"]_ingestVars

(***************************************************************************)
(* Part II.  Bronze -> silver -> gold: extraction, linking, quarantine     *)
(***************************************************************************)
\* bound: data rows of the firm sheet staged in gp_preqin_export_raw
FirmSheetRows == 3
\* bound: transform writes to the silver tables in one behaviour
MaxLoads == 2
\* bound: invocations of run_gold_extraction in one behaviour
MaxExtractions == 2

\* A column value is NULL or Some(v).
NULL == <<>>
Some(v) == <<v>>
COALESCE(a, b) == IF a # NULL THEN a ELSE b

\* Text is modelled as a sequence of words.  normalize_name removes the
\* punctuation, removes one trailing legal suffix that has a word before it,
\* removes one leading article that has a word after it, and lower-cases.
unpunct(w) == IF w = "Inc." THEN "Inc" ELSE w
lower(w) ==
    CASE w = "Acme" -> "acme" [] w = "Beta" -> "beta" [] w = "Fund" -> "fund"
      [] w = "Inc" -> "inc" [] w = "Inc." -> "inc." [] w = "The" -> "the"
      [] OTHER -> w
LegalSuffixes == {"llc", "lp", "inc", "corp", "corporation", "ltd", "limited",
                  "plc", "llp", "pllc", "company", "partners", "gmbh", "sarl",
                  "trust", "fund", "capital", "management", "holdings", "group"}
Articles == {"the", "a", "an"}
normalize_name(input) ==
    IF input = NULL THEN NULL
    ELSE LET s1 == [i \in 1..Len(input[1]) |-> unpunct(input[1][i])]
             s3 == IF Len(s1) > 1 /\ lower(s1[Len(s1)]) \in LegalSuffixes
                   THEN SubSeq(s1, 1, Len(s1) - 1) ELSE s1
             s4 == IF Len(s3) > 1 /\ lower(s3[1]) \in Articles
                   THEN Tail(s3) ELSE s3
         IN  Some([i \in 1..Len(s4) |-> lower(s4[i])])

\* md5(text): a digest token of the text.
md5(t) == <<"md5", t>>

\* The unique indexes of the gold tables (models.py); source_system is the
\* constant 'preqin'.  preqin_deal_investor_firm has only a partial unique
\* index and preqin_quarantine only its primary key.
UniqueIndexes(t) ==
    CASE t \in EntityTables -> {{"source_system", "source_id"}}
      [] t = "firm_manages_fund" -> {{"firm_id", "fund_id"}}
      [] t = "person_employment" -> {{"person_id", "firm_id", "title"}}
      [] t = "deal_target_company" -> {{"deal_id", "company_id"}}
      [] t = "co_investment_edge" -> {{"firm_a_id", "firm_b_id"}}
      [] OTHER -> {}  \* deal_investor_firm: only a partial index, never inferred

\* ON CONFLICT (cols): the server infers the arbiter index from the columns
\* and rejects the statement when no unique index is on exactly those.
HasArbiter(t, cols) == cols \in UniqueIndexes(t)

\* gen_random_uuid(): a token that no row of the table carries yet.
NewId(table, key) == <<key, Cardinality({o \in table : o.id[1] = key})>>

\* The stored rows an incoming entity row conflicts with on
\* (source_system, source_id).
Conflicting_none(table, new) == {}
Conflicting(table, new) ==
    {old \in table : old.source_id # NULL /\ old.source_id = new.source_id}

\* INSERT ... ON CONFLICT (source_system, source_id) DO UPDATE SET ...:
\* conflicting stored rows are updated by Merge, other rows are inserted.
Upsert(table, proposed, Merge(_, _)) ==
    LET hits == {p \in table \X proposed : p[1] \in Conflicting(table, p[2])}
    IN  {old \in table : \A p \in hits : p[1] # old}
        \cup {Merge(p[1], p[2]) : p \in hits}
        \cup {new \in proposed : Conflicting(table, new) = {}}

\* "ON CONFLICT DO UPDATE command cannot affect row a second time": two rows
\* proposed by one statement carry the same conflict key.
AffectsRowTwice(proposed, Key(_)) ==
    \E a, b \in proposed : a # b /\ Key(a) # NULL /\ Key(a) = Key(b)

\* SELECT DISTINCT ON (Key) ... ORDER BY Key, Ord: one row per key, a row of
\* least Ord; which of several rows equal on Ord is returned is unpredictable.
\* The result is the set of row sets the statement can select.
DistinctOn(rows, Key(_), Ord(_)) ==
    {picked \in SUBSET rows :
        /\ \A r \in picked : \A s \in rows : Key(s) = Key(r) => Ord(r) <= Ord(s)
        /\ \A r \in rows : Cardinality({s \in picked : Key(s) = Key(r)}) = 1}

\* The steps of run_gold_extraction, in its order.
Steps == <<"extract_firms", "extract_funds", "link_funds_to_managers",
           "extract_persons", "link_persons_to_firms", "extract_companies",
           "extract_deals", "link_deals_to_companies", "parse_deal_investors",
           "quarantine_unresolved_investors",
           "quarantine_unresolved_fund_managers",
           "quarantine_unresolved_person_employments",
           "get_quarantine_summary">>
Pos(name) == CHOOSE i \in 1..Len(Steps) : Steps[i] = name
LinkSteps == {"link_funds_to_managers", "link_persons_to_firms",
              "link_deals_to_companies", "parse_deal_investors"}
\* The step after position i: the quarantine sweeps run only when
\* quarantine_unresolved is set; 0 when the function returns.
After(i) ==
    IF i = Len(Steps) \/ (Steps[i] = "parse_deal_investors" /\ ~quarantine_unresolved)
    THEN 0 ELSE i + 1

\* Columns declared nullable=False with no server-side default (models.py; a
\* Column(default=...) is applied by the ORM only, not to a textual INSERT).
NotNullColumns(t) ==
    CASE t \in {"firms", "funds", "companies"} ->
            {"id", "source_system", "name", "source_file", "created_at", "updated_at"}
      [] t = "persons" ->
            {"id", "source_system", "full_name", "source_file", "created_at", "updated_at"}
      [] t = "deals" ->
            {"id", "source_system", "source_file", "created_at", "updated_at"}
      [] t = "firm_manages_fund" ->
            {"id", "firm_id", "fund_id", "created_at", "updated_at"}
      [] t = "person_employment" ->
            {"id", "person_id", "firm_id", "created_at", "updated_at"}
      [] t = "deal_target_company" ->
            {"id", "deal_id", "company_id", "created_at", "updated_at"}
      [] t = "deal_investor_firm" ->
            {"id", "deal_id", "investor_firm_name_raw", "created_at", "updated_at"}
      [] t = "quarantine" ->
            {"id", "source_table", "error_type", "raw_data", "created_at", "updated_at"}
      [] t = "co_investment_edge" ->
            {"id", "firm_a_id", "firm_b_id", "created_at", "updated_at"}

\* The column list of the INSERT of each step.
InsertColumns(s) ==
    CASE s = "extract_firms" ->
            {"id", "source_system", "source_id", "preqin_id", "name",
             "name_normalized", "firm_type", "institution_type",
             "headquarters_city", "headquarters_country", "headquarters_region",
             "aum_usd", "aum_raw", "dry_powder_usd", "website", "description",
             "year_founded", "source_file", "source_sheet", "source_row_number",
             "run_id", "created_at", "updated_at"}
      [] s = "extract_funds" ->
            {"id", "source_system", "source_id", "preqin_id", "name",
             "name_normalized", "vintage_year", "fund_size_usd", "fund_size_raw",
             "target_size_usd", "currency", "strategy", "sub_strategy", "status",
             "geography_focus", "sector_focus", "domicile_country", "irr", "tvpi",
             "dpi", "source_file", "source_sheet", "source_row_number", "run_id",
             "created_at", "updated_at"}
      [] s = "link_funds_to_managers" ->
            {"id", "firm_id", "fund_id", "role", "created_at"}
      [] s = "extract_persons" ->
            {"id", "source_system", "source_id", "full_name", "first_name",
             "last_name", "email", "phone", "linkedin_url", "title",
             "seniority_level", "location_city", "location_country",
             "source_file", "source_sheet", "source_row_number", "run_id",
             "created_at", "updated_at"}
      [] s = "link_persons_to_firms" ->
            {"id", "person_id", "firm_id", "title", "is_current", "created_at"}
      [] s = "extract_companies" ->
            {"id", "source_system", "source_id", "name", "name_normalized",
             "country", "region", "primary_industry", "secondary_industry",
             "created_at", "updated_at"}
      [] s = "extract_deals" ->
            {"id", "source_system", "source_id", "preqin_id", "deal_type",
             "deal_date", "deal_value_usd", "deal_value_raw", "stage",
             "deal_status", "country", "region", "primary_industry",
             "secondary_industry", "source_file", "source_sheet",
             "source_row_number", "run_id", "created_at", "updated_at"}
      [] s = "link_deals_to_companies" ->
            {"id", "deal_id", "company_id", "confidence_score", "created_at",
             "updated_at"}
      [] s = "parse_deal_investors" ->
            {"id", "deal_id", "investor_firm_id", "investor_firm_name_raw",
             "confidence_score", "created_at", "updated_at"}
      [] s = "generate_co_investment_edges" ->
            {"firm_a_id", "firm_b_id", "deal_count", "total_value_usd",
             "first_deal_date", "last_deal_date", "top_industries"}
      [] OTHER ->
            {"id", "source_table", "source_record_id", "error_type",
             "error_details", "raw_data", "run_id", "created_at", "updated_at"}

\* The server rejects the INSERT of step s into table t: its ON CONFLICT
\* columns (none: no conflict target) name no unique index, or a proposed row
\* leaves a NOT NULL column without a value.
Rejected(s, t, target, proposed) ==
    \/ target # {} /\ ~HasArbiter(t, target)
    \/ proposed # {} /\ ~(NotNullColumns(t) \subseteq InsertColumns(s))

(***************************************************************************)
(* Bronze -> silver (batch_transforms)                                     *)
(***************************************************************************)
AcmeInc == <<"Acme", "Inc.">>
Acme == <<"Acme">>
Beta == <<"Beta">>

\* The firm sheets: FirmSheetRows data rows, the i-th at source row i + 1, each
\* with a FIRM ID, a FIRM NAME and an AUM in USD millions that may be blank.
FirmSheetRow == [firm_id : {Some("F1"), Some("F2")},
                 firm_name : {Some(Acme), Some(AcmeInc)},
                 aum : {NULL, Some(1), Some(2)}]
FirmSheets == [1..FirmSheetRows -> FirmSheetRow]

\* The silver row transform_gp_firms selects from the i-th bronze row.
SilverFirmOf(i) ==
    LET r == bronzeGp[i]
    IN  [source_type |-> Some("gp"),
         source_firm_id |-> r.firm_id,
         firm_name |-> r.firm_name,
         firm_name_normalized |-> normalize_name(r.firm_name),
         aum_usd |-> IF r.aum = NULL THEN NULL ELSE Some(r.aum[1] * 1000000),
         source_row_number |-> i + 1]

\* Conflict keys and DO UPDATE SET lists of the silver tables; silver.contacts
\* has no unique constraint and its transform no ON CONFLICT clause.
SilverKey(t, r) ==
    CASE t = "firms" -> IF r.source_firm_id = NULL THEN NULL
                        ELSE Some(<<r.source_type, r.source_firm_id>>)
      [] t = "funds" -> r.source_fund_id
      [] t = "deals" -> r.source_deal_id
      [] OTHER -> NULL
SilverMerge(t, old, new) ==
    CASE t = "firms" -> [old EXCEPT !.firm_name = new.firm_name,
                                    !.firm_name_normalized = new.firm_name_normalized,
                                    !.aum_usd = new.aum_usd]
      [] t = "funds" -> [old EXCEPT !.fund_name = new.fund_name,
                                    !.fund_name_normalized = new.fund_name_normalized,
                                    !.fund_size_usd = COALESCE(new.fund_size_usd,
                                                               old.fund_size_usd)]
      [] t = "deals" -> [old EXCEPT !.deal_value_usd = COALESCE(new.deal_value_usd,
                                                                old.deal_value_usd)]
      [] OTHER -> old
SilverUpsert(t, proposed) ==
    LET table == silver[t]
        hits == {p \in table \X proposed :
                    SilverKey(t, p[2]) # NULL /\ SilverKey(t, p[1]) = SilverKey(t, p[2])}
    IN  {old \in table : \A p \in hits : p[1] # old}
        \cup {SilverMerge(t, p[1], p[2]) : p \in hits}
        \cup {new \in proposed : \A p \in hits : p[2] # new}

\* Rows a transform can bring into a silver table when one more source row has
\* been staged.
SilverRows(t) ==
    CASE t = "firms" ->
            {[source_type |-> Some(st), source_firm_id |-> Some("F1"),
              firm_name |-> Some(IF st = "gp" THEN AcmeInc ELSE Acme),
              firm_name_normalized |->
                  normalize_name(Some(IF st = "gp" THEN AcmeInc ELSE Acme)),
              aum_usd |-> a, source_row_number |-> 2] :
                st \in {"gp", "lp"}, a \in {NULL, Some(1000000)}}
      [] t = "funds" ->
            {[source_fund_id |-> Some("U1"), fund_name |-> Some(<<"Fund">>),
              fund_name_normalized |-> normalize_name(Some(<<"Fund">>)),
              fund_size_usd |-> z, manager_firm_id |-> m[1],
              manager_firm_name |-> m[2], source_row_number |-> 2] :
                z \in {NULL, Some(5000000)},
                m \in {<<Some("F1"), NULL>>, <<NULL, Some(AcmeInc)>>,
                       <<NULL, Some(Beta)>>}}
      [] t = "contacts" ->
            {[source_contact_id |-> c, source_firm_id |-> Some("F1"),
              full_name |-> Some(<<"Ann">>), title |-> ti,
              email |-> IF ti = NULL THEN NULL ELSE Some("ann"),
              source_row_number |-> n] :
                c \in {NULL, Some(3)}, ti \in {NULL, Some("MD")}, n \in {2, 3}}
      [] t = "deals" ->
            {[source_deal_id |-> Some(c[1]), target_company_name |-> c[2],
              target_company_id |-> c[3], deal_value_usd |-> v,
              investor_names_raw |-> IF c[1] = "D1"
                                     THEN Some(<<AcmeInc, <<"Inc.">>, Beta>>)
                                     ELSE NULL,
              source_row_number |-> 2] :
                c \in {<<"D1", Some(Acme), Some("K1")>>, <<"D1", NULL, NULL>>,
                       <<"D2", Some(AcmeInc), NULL>>},
                v \in {NULL, Some(7000000)}}

\* transform_gp_firms: one INSERT ... SELECT over the bronze firm rows with ON
\* CONFLICT (source_type, source_firm_id) DO UPDATE; an error is rolled back and
\* the function returns 0.
TransformGpFirms ==
    /\ step = 0
    /\ loads < MaxLoads
    /\ bronzeGp # <<>>
    /\ loads' = loads + 1
    /\ changed' = TRUE
    /\ LET proposed == {SilverFirmOf(i) :
                          i \in {j \in 1..Len(bronzeGp) : bronzeGp[j].firm_name # NULL}}
           key(r) == SilverKey("firms", r)
       IN  silver' = IF AffectsRowTwice(proposed, key) THEN silver
                     ELSE [silver EXCEPT !.firms = SilverUpsert("firms", proposed)]
    /\ UNCHANGED <<bronzeGp, gold, step, quarantine_unresolved, extractions,
                   failed, snapshot, sameInput, job, committed>>
    /\ UNCHANGED nonGoldVars

\* A transform of table t run after one more source row was staged: the row
\* reaches the silver table through the transform's INSERT.
RunTransform(t, row) ==
    /\ step = 0
    /\ loads < MaxLoads
    /\ row \in SilverRows(t)
    /\ loads' = loads + 1
    /\ changed' = TRUE
    /\ silver' = [silver EXCEPT ![t] = SilverUpsert(t, {row})]
    /\ UNCHANGED <<bronzeGp, gold, step, quarantine_unresolved, extractions,
                   failed, snapshot, sameInput, job, committed>>
    /\ UNCHANGED nonGoldVars

(***************************************************************************)
(* Silver -> gold (gold_extraction)                                        *)
(***************************************************************************)
\* One step of run_gold_extraction: the statement is executed and committed,
\* or it raises, is rolled back and the step returns 0; either way the
\* function goes on to the next step.
Statement(s, t, raises, rows) ==
    /\ step = Pos(s)
    /\ step' = After(Pos(s))
    /\ IF raises
       THEN /\ gold' = gold
            /\ failed' = failed \cup {s}
       ELSE /\ gold' = [gold EXCEPT ![t] = rows]
            /\ failed' = failed
    /\ job' = IF After(Pos(s)) = 0 THEN "returned" ELSE job
    /\ committed' = IF s = "parse_deal_investors" THEN gold' ELSE committed
    /\ UNCHANGED <<bronzeGp, silver, quarantine_unresolved, loads, extractions,
                   snapshot, changed, sameInput>>
    /\ UNCHANGED nonGoldVars

\* Entry of run_gold_extraction(run_id, quarantine_unresolved).
StartExtraction(q) ==
    /\ step = 0
    /\ extractions < MaxExtractions
    /\ extractions' = extractions + 1
    /\ quarantine_unresolved' = q
    /\ step' = 1
    /\ failed' = {}
    /\ snapshot' = gold
    /\ sameInput' = (extractions >= 1 /\ ~changed)
    /\ changed' = FALSE
    /\ job' = "running"
    /\ UNCHANGED <<bronzeGp, silver, gold, loads, committed>>
    /\ UNCHANGED nonGoldVars

EntityTarget == {"source_system", "source_id"}
SourceId(r) == r.source_id

\* The canonical rows the extraction statements select, and their DO UPDATE
\* SET lists (columns handled like a listed one are left out: dry_powder_usd
\* is treated as aum_usd, every other column as firm_type).
FirmOf(r) ==
    [id |-> NewId(gold.firms, r.source_firm_id), source_id |-> r.source_firm_id,
     name |-> r.firm_name, name_normalized |-> r.firm_name_normalized,
     firm_type |-> IF r.source_type = Some("gp") THEN Some("GP") ELSE Some("LP"),
     aum_usd |-> r.aum_usd, source_row_number |-> Some(r.source_row_number)]
MergeFirm(old, new) ==
    [old EXCEPT !.name = new.name, !.name_normalized = new.name_normalized,
                !.aum_usd = COALESCE(new.aum_usd, old.aum_usd)]

FundOf(r) ==
    [id |-> NewId(gold.funds, r.source_fund_id), source_id |-> r.source_fund_id,
     name |-> r.fund_name, name_normalized |-> r.fund_name_normalized,
     fund_size_usd |-> r.fund_size_usd, managing_firm_id |-> NULL]
MergeFund(old, new) ==
    [old EXCEPT !.name = new.name, !.name_normalized = new.name_normalized,
                !.fund_size_usd = COALESCE(new.fund_size_usd, old.fund_size_usd)]

\* COALESCE(source_contact_id, source_row_number::TEXT): contact ids are
\* numerals, so the text of a row number can equal a contact id.
PersonKey(r) == COALESCE(r.source_contact_id, Some(r.source_row_number))
PersonOf(r) ==
    [id |-> NewId(gold.persons, PersonKey(r)), source_id |-> PersonKey(r),
     full_name |-> r.full_name, title |-> r.title, email |-> r.email]
MergePerson(old, new) ==
    [old EXCEPT !.full_name = new.full_name, !.title = new.title,
                !.email = COALESCE(new.email, old.email)]

CompanyKey(r) == COALESCE(r.target_company_id, md5(r.target_company_name))
CompanyOf(r) ==
    [id |-> NewId(gold.companies, CompanyKey(r)), source_id |-> CompanyKey(r),
     name |-> r.target_company_name,
     name_normalized |-> normalize_name(r.target_company_name)]
MergeCompany(old, new) ==
    [old EXCEPT !.name = new.name, !.name_normalized = new.name_normalized]

DealOf(r) ==
    [id |-> NewId(gold.deals, r.source_deal_id), source_id |-> r.source_deal_id,
     deal_value_usd |-> r.deal_value_usd]
MergeDeal(old, new) ==
    [old EXCEPT !.deal_value_usd = COALESCE(new.deal_value_usd, old.deal_value_usd)]

\* An extraction statement: INSERT ... SELECT ... ON CONFLICT (source_system,
\* source_id) DO UPDATE SET ... into entity table t.
Extract(s, t, proposed, Merge(_, _)) ==
    Statement(s, t,
              Rejected(s, t, EntityTarget, proposed)
                  \/ AffectsRowTwice(proposed, SourceId),
              Upsert(gold[t], proposed, Merge))

extract_firms ==
    LET key(r) == r.source_firm_id
        ord(r) == r.source_row_number
        rows == {r \in silver.firms : r.firm_name # NULL /\ key(r) # NULL}
    IN  \E picked \in DistinctOn(rows, key, ord) :
            Extract("extract_firms", "firms", {FirmOf(r) : r \in picked}, MergeFirm)

extract_funds ==
    LET rows == {r \in silver.funds : r.fund_name # NULL}
    IN  Extract("extract_funds", "funds", {FundOf(r) : r \in rows}, MergeFund)

extract_persons ==
    LET ord(r) == r.source_row_number
        rows == {r \in silver.contacts : r.full_name # NULL}
    IN  \E picked \in DistinctOn(rows, PersonKey, ord) :
            Extract("extract_persons", "persons", {PersonOf(r) : r \in picked},
                    MergePerson)

\* DISTINCT ON (normalize_name(target_company_name)) without an ORDER BY.
extract_companies ==
    LET key(r) == normalize_name(r.target_company_name)
        ord(r) == 0
        rows == {r \in silver.deals : r.target_company_name # NULL}
    IN  \E picked \in DistinctOn(rows, key, ord) :
            Extract("extract_companies", "companies",
                    {CompanyOf(r) : r \in picked}, MergeCompany)

extract_deals ==
    LET rows == {r \in silver.deals : r.source_deal_id # NULL}
    IN  Extract("extract_deals", "deals", {DealOf(r) : r \in rows}, MergeDeal)

\* INSERT ... ON CONFLICT (key columns) DO NOTHING of relationship rows: a
\* proposed row whose key a stored row carries is skipped.
InsertDoNothing(table, proposed, Key(_)) ==
    table \cup {[n EXCEPT !.id = NewId(table, Key(n))] :
                   n \in {m \in proposed : \A o \in table : Key(o) # Key(m)}}

\* link_funds_to_managers: the id match, then the name match for funds that
\* carry no manager row yet, in one transaction.
link_funds_to_managers ==
    LET s == "link_funds_to_managers"
        t == "firm_manages_fund"
        key(l) == <<l.firm_id, l.fund_id>>
        joined == {j \in gold.funds \X silver.funds \X gold.firms :
                      j[2].source_fund_id = j[1].source_id}
        byId == {[id |-> NULL, firm_id |-> j[3].id, fund_id |-> j[1].id] :
                    j \in {k \in joined : /\ k[2].manager_firm_id # NULL
                                          /\ k[3].source_id = k[2].manager_firm_id}}
        after1 == InsertDoNothing(gold[t], byId, key)
        byName == {[id |-> NULL, firm_id |-> j[3].id, fund_id |-> j[1].id] :
                      j \in {k \in joined :
                                /\ k[2].manager_firm_name # NULL
                                /\ k[3].name_normalized
                                       = normalize_name(k[2].manager_firm_name)
                                /\ \A l \in after1 : l.fund_id # k[1].id}}
    IN  Statement(s, t,
                  Rejected(s, t, {"firm_id", "fund_id"}, byId)
                      \/ Rejected(s, t, {"firm_id", "fund_id"}, byName),
                  InsertDoNothing(after1, byName, key))

\* link_persons_to_firms: ON CONFLICT (person_id, firm_id).
link_persons_to_firms ==
    LET s == "link_persons_to_firms"
        t == "person_employment"
        key(l) == <<l.person_id, l.firm_id>>
        proposed ==
            {[id |-> NULL, person_id |-> j[1].id, firm_id |-> j[3].id,
              title |-> j[2].title] :
                j \in {k \in gold.persons \X silver.contacts \X gold.firms :
                          /\ k[2].source_contact_id # NULL
                          /\ k[2].source_contact_id = k[1].source_id
                          /\ k[2].source_firm_id # NULL
                          /\ k[3].source_id = k[2].source_firm_id}}
    IN  Statement(s, t, Rejected(s, t, {"person_id", "firm_id"}, proposed),
                  InsertDoNothing(gold[t], proposed, key))

\* link_deals_to_companies: ON CONFLICT (deal_id, company_id).
link_deals_to_companies ==
    LET s == "link_deals_to_companies"
        t == "deal_target_company"
        key(l) == <<l.deal_id, l.company_id>>
        proposed ==
            {[id |-> NULL, deal_id |-> j[1].id, company_id |-> j[3].id] :
                j \in {k \in gold.deals \X silver.deals \X gold.companies :
                          /\ k[2].source_deal_id = k[1].source_id
                          /\ k[2].target_company_name # NULL
                          /\ k[3].name_normalized
                                 = normalize_name(k[2].target_company_name)}}
    IN  Statement(s, t, Rejected(s, t, {"deal_id", "company_id"}, proposed),
                  InsertDoNothing(gold[t], proposed, key))

\* Tokens parse_deal_investors discards after trimming.
StopTokens == {"inc", "inc.", "llc", "l.l.c.", "ltd", "ltd.", "limited", "corp",
               "corp.", "co", "co.", "plc", "gmbh", "s.a.", "sarl", "bv", "ag",
               "kk", "pte", "pty", "lp", "l.p.", "llp", "pllc", "partners",
               "undisclosed", "unknown", "n/a", "na", "-", "the", "a", "an"}

\* parse_deal_investors: the investor list (a sequence of the texts between
\* the separators) is unnested, cleaned and LEFT JOINed to the firms by
\* normalized name; ON CONFLICT (deal_id, investor_firm_name_raw).
parse_deal_investors ==
    LET s == "parse_deal_investors"
        t == "deal_investor_firm"
        key(l) == <<l.deal_id, l.investor_firm_name_raw>>
        parsed == UNION {{<<j[1].id, j[2].investor_names_raw[1][i]>> :
                              i \in 1..Len(j[2].investor_names_raw[1])} :
                            j \in {k \in gold.deals \X silver.deals :
                                      /\ k[2].source_deal_id = k[1].source_id
                                      /\ k[2].investor_names_raw # NULL}}
        cleaned == {c \in parsed :
                       /\ c[2] # <<>>
                       /\ ~(Len(c[2]) = 1 /\ lower(c[2][1]) \in StopTokens)}
        firmsOf(c) == {f \in gold.firms :
                          f.name_normalized = normalize_name(Some(c[2]))}
        row(c, firm) == [id |-> NULL, deal_id |-> c[1], investor_firm_id |-> firm,
                         investor_firm_name_raw |-> c[2],
                         resolution_method |-> NULL]
        proposed == UNION {IF firmsOf(c) = {} THEN {row(c, NULL)}
                           ELSE {row(c, Some(f.id)) : f \in firmsOf(c)} :
                             c \in cleaned}
    IN  Statement(s, t,
                  Rejected(s, t, {"deal_id", "investor_firm_name_raw"}, proposed),
                  InsertDoNothing(gold[t], proposed, key))

\* A quarantine sweep: INSERT ... SELECT ... ON CONFLICT DO NOTHING, one row
\* per selected row; the primary key, a fresh uuid, is the only unique index
\* of preqin_quarantine.  resolved has no server-side default.  The statement
\* can also fail in the database (fault); the except branch rolls it back.
Sweep(s, source_table, error_type, selected) ==
    LET proposed == {[id |-> NULL, source_table |-> source_table,
                      source_record_id |-> x[1], error_type |-> error_type,
                      raw_data |-> x[2], resolved |-> NULL] : x \in selected}
        key(q) == <<q.source_table, q.source_record_id, q.raw_data>>
    IN  \E fault \in BOOLEAN :
            Statement(s, "quarantine",
                      fault \/ Rejected(s, "quarantine", {}, proposed),
                      gold.quarantine
                          \cup {[q EXCEPT !.id = NewId(gold.quarantine, key(q))] :
                                   q \in proposed})

\* What the three sweeps select: <<id of the offending row, raw context>>.
UnresolvedInvestors ==
    {<<l.id, l.investor_firm_name_raw>> :
        l \in {m \in gold.deal_investor_firm :
                  /\ m.investor_firm_id = NULL
                  /\ m.resolution_method \in {NULL, Some("unresolved")}}}
UnresolvedFundManagers ==
    {<<j[1].id, j[2].manager_firm_name>> :
        j \in {k \in gold.funds \X silver.funds :
                  /\ k[2].source_fund_id = k[1].source_id
                  /\ k[1].managing_firm_id = NULL
                  /\ k[2].manager_firm_name # NULL
                  /\ \A l \in gold.firm_manages_fund : l.fund_id # k[1].id}}
UnresolvedPersonEmployments ==
    {<<j[1].id, j[2]>> :
        j \in {k \in gold.persons \X silver.contacts :
                  /\ k[2].source_contact_id # NULL
                  /\ k[2].source_contact_id = k[1].source_id
                  /\ k[2].source_firm_id # NULL
                  /\ \A l \in gold.person_employment : l.person_id # k[1].id}}

quarantine_unresolved_investors ==
    Sweep("quarantine_unresolved_investors", "deal_investor_firm",
          "unresolved_investor_firm", UnresolvedInvestors)

quarantine_unresolved_fund_managers ==
    Sweep("quarantine_unresolved_fund_managers", "fund_manager_link",
          "unresolved_manager_firm", UnresolvedFundManagers)

quarantine_unresolved_person_employments ==
    Sweep("quarantine_unresolved_person_employments", "person_employment",
          "unresolved_employment_firm", UnresolvedPersonEmployments)

\* get_quarantine_summary, called last in the quarantine step with no
\* try/except around it: when its SELECT fails the exception leaves
\* run_gold_extraction, otherwise the function returns its results.
get_quarantine_summary ==
    /\ step = Pos("get_quarantine_summary")
    /\ step' = 0
    /\ \E fault \in BOOLEAN :
          /\ job' = IF fault THEN "raised" ELSE "returned"
          /\ failed' = IF fault THEN failed \cup {"get_quarantine_summary"}
                        ELSE failed
    /\ UNCHANGED <<bronzeGp, silver, gold, quarantine_unresolved, loads,
                   extractions, snapshot, changed, sameInput, committed>>
    /\ UNCHANGED nonGoldVars

\* run_gold_extraction, step by step.
RunStep ==
    \/ extract_firms
    \/ extract_funds
    \/ link_funds_to_managers
    \/ extract_persons
    \/ link_persons_to_firms
    \/ extract_companies
    \/ extract_deals
    \/ link_deals_to_companies
    \/ parse_deal_investors
    \/ quarantine_unresolved_investors
    \/ quarantine_unresolved_fund_managers
    \/ quarantine_unresolved_person_employments
    \/ get_quarantine_summary

GoldNext ==
    \/ \E t \in SilverTables : \E row \in SilverRows(t) : RunTransform(t, row)
    \/ \E q \in BOOLEAN : StartExtraction(q)
    \/ RunStep

\* Transforms of arbitrary source rows interleaved with extraction runs.
GoldSpecInit == IngestInit /\ GoldInit /\ AnalysisInit /\ RestInit
GoldSpec == GoldSpecInit /\ [][GoldNext]_vars

\* The firm pipeline over one staged firm sheet.
FirmInit ==
    /\ bronzeGp \in FirmSheets
    /\ silver = [t \in SilverTables |-> {}]
    /\ gold = [t \in GoldTables |-> {}]
    /\ step = 0
    /\ quarantine_unresolved = TRUE
    /\ loads = 0
    /\ extractions = 0
    /\ failed = {}
    /\ snapshot = [t \in GoldTables |-> {}]
    /\ changed = FALSE
    /\ sameInput = FALSE
    /\ job = "none"
    /\ committed = [t \in GoldTables |-> {}]

FirmNext ==
    \/ TransformGpFirms
    \/ \E q \in BOOLEAN : StartExtraction(q)
    \/ RunStep

FirmSpecInit == IngestInit /\ FirmInit /\ AnalysisInit /\ RestInit
FirmSpec == FirmSpecInit /\ [][FirmNext]_vars

(***************************************************************************)
(* Properties of Part II                                                   *)
(***************************************************************************)
\* The last thing that happened is a completed run_gold_extraction.
RunCompleted == step = 0 /\ extractions >= 1 /\ ~changed

\* C5: extraction is idempotent: a run of run_gold_extraction over the silver
\* rows the previous run read leaves every canonical table with the rows and
\* field values the previous run left.
C5_ExtractionIdempotent ==
    (RunCompleted /\ sameInput) =>
        \A t \in EntityTables : gold[t] = snapshot[t]

\* C6: no canonical table ever holds two rows with the same
\* (source_system, source_id).
C6_UniqueSource ==
    \A t \in EntityTables :
        \A a, b \in gold[t] : a.source_id = b.source_id => a = b

\* C6 witness: a second extraction run has completed over firms and persons
\* the first run had already stored, so its rows met their conflict keys.
C6_Witness ==
    /\ RunCompleted
    /\ extractions >= 2
    /\ snapshot.firms # {}
    /\ snapshot.persons # {}
    /\ failed \cap {"extract_firms", "extract_persons"} = {}

\* C7: no step ever replaces a non-null stored field of a canonical row by
\* null.
C7_NoNullOverwrite ==
    [][\A t \in EntityTables : \A old \in gold[t] : \A new \in gold'[t] :
          old.id = new.id =>
              \A f \in DOMAIN old : (f # "id" /\ old[f] # NULL) => new[f] # NULL]_vars

\* C8: after a three-row firm sheet in which two rows share the FIRM ID was
\* ingested, transformed and extracted, there are exactly two canonical firms,
\* and the firm of the shared id has the later row's non-null fields and the
\* earlier row's value where the later row is blank.
C8_DuplicateFirmMerged ==
    (/\ RunCompleted
     /\ loads >= 1
     /\ Cardinality({bronzeGp[i].firm_id : i \in 1..Len(bronzeGp)}) = 2) =>
        /\ Cardinality(gold.firms) = 2
        /\ \A i, j \in 1..Len(bronzeGp) :
              (i < j /\ bronzeGp[i].firm_id = bronzeGp[j].firm_id) =>
                 \E f \in gold.firms :
                    /\ f.source_id = bronzeGp[j].firm_id
                    /\ f.name = bronzeGp[j].firm_name
                    /\ f.aum_usd =
                          LET a == COALESCE(bronzeGp[j].aum, bronzeGp[i].aum)
                          IN  IF a = NULL THEN NULL ELSE Some(a[1] * 1000000)

\* C9: a second run of the linking passes over unchanged entities succeeds in
\* every pass and leaves every relationship table exactly as the first run
\* left it.
C9_LinkingRerunSafe ==
    (/\ RunCompleted
     /\ sameInput
     /\ \A t \in EntityTables : gold[t] = snapshot[t]) =>
        /\ failed \cap LinkSteps = {}
        /\ \A t \in LinkTables : gold[t] = snapshot[t]

\* The quarantine records of an offending row.
QuarantineOf(source_table, x) ==
    {q \in gold.quarantine :
        q.source_table = source_table /\ q.source_record_id = x[1]}

\* C10: after any number of runs with quarantine sweeps, every row whose
\* reference is still missing has exactly one quarantine record.
C10_OneRecordPerOffender ==
    (RunCompleted /\ quarantine_unresolved) =>
        /\ \A x \in UnresolvedInvestors :
              Cardinality(QuarantineOf("deal_investor_firm", x)) = 1
        /\ \A x \in UnresolvedFundManagers :
              Cardinality(QuarantineOf("fund_manager_link", x)) = 1
        /\ \A x \in UnresolvedPersonEmployments :
              Cardinality(QuarantineOf("person_employment", x)) = 1


\* The statements of the quarantine step of run_gold_extraction.
QuarantineSteps == {"quarantine_unresolved_investors",
                    "quarantine_unresolved_fund_managers",
                    "quarantine_unresolved_person_employments",
                    "get_quarantine_summary"}

\* C11: when a statement of the quarantine step failed, run_gold_extraction
\* still returns its results, and the canonical and relationship rows are the
\* ones committed before the quarantine step began.
C11_QuarantineFailureContained ==
    (step = 0 /\ extractions >= 1 /\ failed \cap QuarantineSteps # {}) =>
        /\ job = "returned"
        /\ \A t \in EntityTables \cup LinkTables : gold[t] = committed[t]

\* A run of run_gold_extraction has returned and the silver rows are the ones
\* it read.
RunReturned == step = 0 /\ job = "returned" /\ ~changed

\* The firms the direct-identifier pass matches to fund fu.
MatchedById(fu) ==
    {j[2].id : j \in {k \in silver.funds \X gold.firms :
                         /\ k[1].source_fund_id = fu.source_id
                         /\ k[1].manager_firm_id # NULL
                         /\ k[2].source_id = k[1].manager_firm_id}}

UnmatchedTokens ==
    {c \in UNION {{<<j[1].id, j[2].investor_names_raw[1][i]>> :
                      i \in 1..Len(j[2].investor_names_raw[1])} :
                    j \in {k \in gold.deals \X silver.deals :
                              /\ k[2].source_deal_id = k[1].source_id
                              /\ k[2].investor_names_raw # NULL}} :
        /\ c[2] # <<>>
        /\ ~(Len(c[2]) = 1 /\ lower(c[2][1]) \in StopTokens)
        /\ \A f \in gold.firms : f.name_normalized # normalize_name(Some(c[2]))}

\* C24: after parse_deal_investors has run, every surviving token that
\* matches no canonical firm has a relationship row with a null firm
\* reference, resolution_method 'unresolved' and the raw token text.
C24_UnresolvedTokensRecorded ==
    RunReturned =>
        \A c \in UnmatchedTokens :
            \E l \in gold.deal_investor_firm :
                /\ l.deal_id = c[1]
                /\ l.investor_firm_name_raw = c[2]
                /\ l.investor_firm_id = NULL
                /\ l.resolution_method = Some("unresolved")

\* What get_quarantine_summary returns over the quarantine table: the rows
\* with resolved = FALSE grouped by source_table and error_type, and the sum
\* of the group counts.
RECURSIVE SumCounts(_)
SumCounts(groups) ==
    IF groups = {} THEN 0
    ELSE LET g == CHOOSE x \in groups : TRUE
         IN  g.count + SumCounts(groups \ {g})
QuarantineSummary ==
    LET unresolved == {q \in gold.quarantine : q.resolved = Some(FALSE)}
        by_type ==
            {[source_table |-> q.source_table, error_type |-> q.error_type,
              count |-> Cardinality({o \in unresolved :
                                        /\ o.source_table = q.source_table
                                        /\ o.error_type = q.error_type})] :
                q \in unresolved}
    IN  [total_unresolved |-> SumCounts(by_type), by_type |-> by_type]

\* C28: right after sweeps that inserted n records into an empty quarantine
\* table, get_quarantine_summary reports total_unresolved = n, the sum of its
\* by_type counts.
C28_SummaryCountsUnresolved ==
    (RunReturned /\ quarantine_unresolved /\ snapshot.quarantine = {}) =>
        /\ QuarantineSummary.total_unresolved = Cardinality(gold.quarantine)
        /\ QuarantineSummary.total_unresolved
               = SumCounts(QuarantineSummary.by_type)

(***************************************************************************)
(* Part III.  Co-investment edges (analysis/co_investment.py)              *)
(***************************************************************************)
\* bound: firms that invest in deals (ids ordered as uuids are)
MaxFirms == 3
\* bound: deals
MaxDeals == 2
\* bound: calls of generate_co_investment_edges
MaxRebuilds == 2
\* bound: rows of preqin_deal_investor_firm
MaxLinks == 3
\* default of max_investors_per_deal
MAX_INVESTORS_PER_DEAL == 50

Firms == 1..MaxFirms
Deals == 1..MaxDeals

\* Rows of preqin_deal_investor_firm; investor_firm_id is NULL while the
\* investor is unresolved.
DealInvestorRows == [deal_id : Deals, investor_firm_id : {Some(f) : f \in Firms} \cup {NULL}]

\* CheckConstraint('firm_a_id < firm_b_id', name='ck_firm_ordering').
ck_firm_ordering_none(e) == TRUE
ck_firm_ordering(e) == e.firm_a_id < e.firm_b_id
\* UniqueConstraint('firm_a_id', 'firm_b_id', name='uq_co_investment_pair').
uq_co_investment_pair(table) ==
    \A e1, e2 \in table :
        (e1.firm_a_id = e2.firm_a_id /\ e1.firm_b_id = e2.firm_b_id) => e1 = e2

\* The contents the schema admits for preqin_co_investment_edge.
EdgeRows == [firm_a_id : Firms, firm_b_id : Firms, deal_count : {1},
             total_value_usd : {1000000}, first_deal_date : {1},
             last_deal_date : {1}]
EdgeTables ==
    {T \in SUBSET EdgeRows :
        (\A e \in T : ck_firm_ordering(e)) /\ uq_co_investment_pair(T)}

LEAST(a, b) == IF a < b THEN a ELSE b
GREATEST(a, b) == IF a < b THEN b ELSE a

\* COUNT(*) ... WHERE investor_firm_id IS NOT NULL GROUP BY deal_id.
investor_count(d) ==
    Cardinality({r \in dealInvestors : r.deal_id = d /\ r.investor_firm_id # NULL})
\* The deals the first query reports: HAVING COUNT(*) > :max_investors.
skipped_deals(max_investors) == {d \in Deals : investor_count(d) > max_investors}
\* The CTE valid_deals: investor_count <= :max_investors.
valid_deals(max_investors) ==
    {d \in Deals : investor_count(d) >= 1 /\ investor_count(d) <= max_investors}
\* The firms of the resolved rows of a deal.
InvestorsOf(d) ==
    {r.investor_firm_id[1] :
        r \in {q \in dealInvestors : q.deal_id = d /\ q.investor_firm_id # NULL}}
\* The rows of the self-join, a.investor_firm_id < b.investor_firm_id, over
\* the valid deals.
JoinedPairs(max_investors) ==
    {<<d, a, b>> \in valid_deals(max_investors) \X Firms \X Firms :
        a \in InvestorsOf(d) /\ b \in InvestorsOf(d) /\ a < b}
\* preqin_deals: deal d has deal_value_usd d million and deal_date day d.
deal_value_usd(d) == d * 1000000
deal_date(d) == d
\* SUM(d.deal_value_usd) over rows of the join.
RECURSIVE SumValue(_)
SumValue(rows) ==
    IF rows = {} THEN 0
    ELSE LET r == CHOOSE x \in rows : TRUE
         IN  deal_value_usd(r[1]) + SumValue(rows \ {r})
\* The SELECT of the INSERT: GROUP BY LEAST, GREATEST with COUNT(DISTINCT
\* deal_id), SUM(deal_value_usd), MIN(deal_date), MAX(deal_date).
EdgeSelect(max_investors) ==
    {LET group == {l \in JoinedPairs(max_investors) :
                      LEAST(l[2], l[3]) = LEAST(j[2], j[3])
                      /\ GREATEST(l[2], l[3]) = GREATEST(j[2], j[3])}
         dates == {deal_date(l[1]) : l \in group}
     IN  [firm_a_id |-> LEAST(j[2], j[3]), firm_b_id |-> GREATEST(j[2], j[3]),
          deal_count |-> Cardinality({k[1] : k \in group}),
          total_value_usd |-> SumValue(group),
          first_deal_date |-> CHOOSE x \in dates : \A y \in dates : x <= y,
          last_deal_date |-> CHOOSE x \in dates : \A y \in dates : x >= y] :
        j \in JoinedPairs(max_investors)}

\* A row reaches preqin_deal_investor_firm, or leaves it.
AddInvestor(r) ==
    /\ r \notin dealInvestors
    /\ Cardinality(dealInvestors) < MaxLinks
    /\ dealInvestors' = dealInvestors \cup {r}
    /\ rebuild' = [rebuild EXCEPT !.fresh = FALSE]
    /\ UNCHANGED <<edges, rebuilds, network>>
    /\ UNCHANGED nonAnalysisVars
RemoveInvestor(r) ==
    /\ r \in dealInvestors
    /\ dealInvestors' = dealInvestors \ {r}
    /\ rebuild' = [rebuild EXCEPT !.fresh = FALSE]
    /\ UNCHANGED <<edges, rebuilds, network>>
    /\ UNCHANGED nonAnalysisVars

\* generate_co_investment_edges(max_investors_per_deal): the skipped deals are
\* read, then TRUNCATE and the INSERT run in one transaction.  Nothing catches
\* an error of the INSERT: the session is closed, the transaction with the
\* TRUNCATE is rolled back and the exception leaves the function.
generate_co_investment_edges(max_investors_per_deal) ==
    /\ rebuilds < MaxRebuilds
    /\ rebuilds' = rebuilds + 1
    /\ LET proposed == EdgeSelect(max_investors_per_deal)
           raises == Rejected("generate_co_investment_edges", "co_investment_edge",
                              {"firm_a_id", "firm_b_id"}, proposed)
       IN  IF raises
           THEN /\ edges' = edges
                /\ rebuild' = [ended |-> "raised",
                               max_investors_per_deal |-> max_investors_per_deal,
                               fresh |-> TRUE]
           ELSE /\ edges' = proposed
                /\ rebuild' =
                     [ended |-> "returned",
                      max_investors_per_deal |-> max_investors_per_deal,
                      fresh |-> TRUE,
                      edges_created |-> Cardinality(proposed),
                      high_degree_deals_skipped |->
                          Cardinality(skipped_deals(max_investors_per_deal))]
    /\ UNCHANGED <<dealInvestors, network>>
    /\ UNCHANGED nonAnalysisVars

\* Rebuilds of the edge table over changing deal-investor rows, from any
\* content the schema admits for the table.
EdgeInit ==
    /\ dealInvestors = {}
    /\ edges \in EdgeTables
    /\ rebuilds = 0
    /\ rebuild = [ended |-> "none", fresh |-> FALSE]
    /\ network = [ended |-> "none"]

EdgeNext ==
    \/ \E r \in DealInvestorRows : AddInvestor(r)
    \/ \E r \in DealInvestorRows : RemoveInvestor(r)
    \/ \E m \in {1, 2, MAX_INVESTORS_PER_DEAL} : generate_co_investment_edges(m)

EdgeSpecInit == IngestInit /\ GoldInit /\ EdgeInit /\ RestInit
EdgeSpec == EdgeSpecInit /\ [][EdgeNext]_vars

\* The firm pairs that share a deal with at most m resolved investors.
SharingPairs(m) == {<<j[2], j[3]>> : j \in JoinedPairs(m)}

\* C12: after a rebuild every edge has firm_a_id < firm_b_id and no two edge
\* rows are for the same unordered pair of firms.
C12_CanonicalEdges ==
    rebuilds >= 1 =>
        /\ \A e \in edges : e.firm_a_id < e.firm_b_id
        /\ \A e1, e2 \in edges :
              {e1.firm_a_id, e1.firm_b_id} = {e2.firm_a_id, e2.firm_b_id} => e1 = e2

\* A rebuild has run over a deal shared by two firms and the table holds edges.
C12_Witness ==
    /\ rebuilds >= 1
    /\ SharingPairs(rebuild.max_investors_per_deal) # {}
    /\ Cardinality(edges) >= 2


\* The deal-investor rows are those the latest rebuild read (fresh).
Rebuilt == rebuilds >= 1 /\ rebuild.fresh

\* C13: after a rebuild the edge table holds no edge for a pair of firms that
\* shares no deal in the current data, whatever the table held before.
C13_EdgesFromCurrentData ==
    Rebuilt =>
        \A e \in edges :
            <<e.firm_a_id, e.firm_b_id>> \in SharingPairs(rebuild.max_investors_per_deal)

\* C14: a deal above the threshold is counted as skipped and adds no edge and
\* no increment; a deal within the threshold is not counted and every pair of
\* its resolved investors has an edge.
C14_HighDegreeGuardrail ==
    Rebuilt =>
        LET m == rebuild.max_investors_per_deal
        IN  /\ skipped_deals(m) # {} => rebuild.ended = "returned"
            /\ rebuild.ended = "returned" =>
                  rebuild.high_degree_deals_skipped = Cardinality(skipped_deals(m))
            /\ \A d \in valid_deals(m) : \A a, b \in InvestorsOf(d) :
                  a < b => \E e \in edges : e.firm_a_id = a /\ e.firm_b_id = b
            /\ rebuild.ended = "returned" =>
                \A e \in edges :
                  e.deal_count =
                      Cardinality({d \in valid_deals(m) :
                                      {e.firm_a_id, e.firm_b_id} \subseteq InvestorsOf(d)})

\* The non-skipped deals in which firms a and b are both resolved investors.
SharedDeals(a, b, max_investors) ==
    {d \in valid_deals(max_investors) : {a, b} \subseteq InvestorsOf(d)}
RECURSIVE TotalValue(_)
TotalValue(deals) ==
    IF deals = {} THEN 0
    ELSE LET d == CHOOSE x \in deals : TRUE
         IN  deal_value_usd(d) + TotalValue(deals \ {d})

MaxNetworkFirms == 5
\* bound: rows of the edge table the queries run over
MaxEdges == 4
\* bound: the largest max_hops a caller asks for
MaxHopsRequested == 5

NetworkFirms == 1..MaxNetworkFirms

\* Edge tables over the network firms, as the schema admits them.
NetworkTables ==
    {{[firm_a_id |-> p[1], firm_b_id |-> p[2], deal_count |-> 1] : p \in P} :
        P \in {Q \in SUBSET {q \in NetworkFirms \X NetworkFirms : q[1] < q[2]} :
                  Cardinality(Q) <= MaxEdges}}

\* if max_hops > 3: max_hops = 3  # Safety limit
SafetyLimit_none(max_hops) == max_hops
SafetyLimit(max_hops) == IF max_hops > 3 THEN 3 ELSE max_hops

\* CASE WHEN e.firm_a_id = f THEN e.firm_b_id ELSE e.firm_a_id END
OtherEnd(e, f) == IF e.firm_a_id = f THEN e.firm_b_id ELSE e.firm_a_id

\* The rows of the recursive CTE at hop h: firm_id, hop, path.
RECURSIVE NetworkLevel(_, _, _, _)
NetworkLevel(firm_id, max_hops, min_deals, h) ==
    IF h = 1
    THEN {[firm_id |-> OtherEnd(e, firm_id), hop |-> 1, path |-> <<firm_id>>,
           deal_count |-> e.deal_count] :
             e \in {x \in edges : /\ (x.firm_a_id = firm_id \/ x.firm_b_id = firm_id)
                                  /\ x.deal_count >= min_deals}}
    ELSE {[firm_id |-> OtherEnd(j[2], j[1].firm_id), hop |-> j[1].hop + 1,
           path |-> Append(j[1].path, j[1].firm_id),
           deal_count |-> j[2].deal_count] :
             j \in {k \in NetworkLevel(firm_id, max_hops, min_deals, h - 1) \X edges :
                      /\ (k[2].firm_a_id = k[1].firm_id \/ k[2].firm_b_id = k[1].firm_id)
                      /\ k[1].hop < max_hops
                      /\ k[2].deal_count >= min_deals
                      /\ \A i \in 1..Len(k[1].path) :
                            k[1].path[i] # OtherEnd(k[2], k[1].firm_id)
                      /\ OtherEnd(k[2], k[1].firm_id) # firm_id}}

\* WITH RECURSIVE network: the base rows and every further hop.  The rows of
\* hop h + 1 come from rows of hop h with hop < max_hops, so no level above
\* max_hops (or above 1, the base) has rows.
NetworkRows(firm_id, max_hops, min_deals) ==
    UNION {NetworkLevel(firm_id, max_hops, min_deals, h) :
              h \in 1..(IF max_hops > 1 THEN max_hops ELSE 1)}

\* The outer SELECT: one row per firm with MIN(hop) and SUM(deal_count).
RECURSIVE SumDealCount(_)
SumDealCount(rows) ==
    IF rows = {} THEN 0
    ELSE LET r == CHOOSE x \in rows : TRUE
         IN  r.deal_count + SumDealCount(rows \ {r})
\* MAX(n.hop) in the place of MIN(n.hop).
GroupedRows_max(rows) ==
    {[firm_id |-> f,
      distance |-> CHOOSE h \in {r.hop : r \in {x \in rows : x.firm_id = f}} :
                      \A r \in {x \in rows : x.firm_id = f} : h >= r.hop,
      total_connections |-> SumDealCount({x \in rows : x.firm_id = f})] :
        f \in {r.firm_id : r \in rows}}
GroupedRows(rows) ==
    {[firm_id |-> f,
      distance |-> CHOOSE h \in {r.hop : r \in {x \in rows : x.firm_id = f}} :
                      \A r \in {x \in rows : x.firm_id = f} : h <= r.hop,
      total_connections |-> SumDealCount({x \in rows : x.firm_id = f})] :
        f \in {r.firm_id : r \in rows}}

\* ORDER BY distance, total_connections DESC: the orders the server may
\* return the grouped rows in (rows equal on both keys come in any order).
RECURSIVE OrderedBy(_)
OrderedBy(grouped) ==
    IF grouped = {} THEN {<<>>}
    ELSE UNION {{<<r>> \o o : o \in OrderedBy(grouped \ {r})} :
                  r \in {x \in grouped :
                           \A y \in grouped :
                              \/ x.distance < y.distance
                              \/ /\ x.distance = y.distance
                                 /\ x.total_connections >= y.total_connections}}

\* The loop over the result: a row goes to the list hop_<distance> when that
\* key exists and the list is shorter than limit_per_hop.
RECURSIVE Organize(_, _, _, _)
Organize(rows, i, limit_per_hop, buckets) ==
    IF i > Len(rows) THEN buckets
    ELSE LET k == rows[i].distance
         IN  Organize(rows, i + 1, limit_per_hop,
                      IF k \in DOMAIN buckets /\ Len(buckets[k]) < limit_per_hop
                      THEN [buckets EXCEPT ![k] = Append(@, rows[i].firm_id)]
                      ELSE buckets)

\* get_network_hops(firm_id, max_hops, min_deals, limit_per_hop).
get_network_hops(firm_id, max_hops_arg, min_deals, limit_per_hop) ==
    /\ network.ended = "none"
    /\ LET max_hops == SafetyLimit(max_hops_arg)
           grouped == GroupedRows(NetworkRows(firm_id, max_hops, min_deals))
           total_limit == limit_per_hop * max_hops
       IN  \E o \in OrderedBy(grouped) :
              LET limited == SubSeq(o, 1, IF Len(o) < total_limit THEN Len(o)
                                          ELSE IF total_limit < 0 THEN 0
                                          ELSE total_limit)
              IN  network' =
                     [ended |-> "returned", firm_id |-> firm_id,
                      max_hops |-> max_hops_arg, min_deals |-> min_deals,
                      limit_per_hop |-> limit_per_hop,
                      network |-> Organize(limited, 1, limit_per_hop,
                                           [h \in 1..max_hops |-> <<>>])]
    /\ UNCHANGED <<dealInvestors, edges, rebuilds, rebuild>>
    /\ UNCHANGED nonAnalysisVars

\* One network query over any edge table the schema admits.
HopInit ==
    /\ dealInvestors = {}
    /\ edges \in NetworkTables
    /\ rebuilds = 0
    /\ rebuild = [ended |-> "none", fresh |-> FALSE]
    /\ network = [ended |-> "none"]

HopNext ==
    \E firm_id \in NetworkFirms, max_hops \in 0..MaxHopsRequested,
       min_deals \in {1, 2}, limit_per_hop \in {1, 20} :
        get_network_hops(firm_id, max_hops, min_deals, limit_per_hop)

HopSpecInit == IngestInit /\ GoldInit /\ HopInit /\ RestInit
HopSpec == HopSpecInit /\ [][HopNext]_vars

\* The firms within n edges (of at least min_deals deals) of a set of firms.
RECURSIVE Within(_, _, _)
Within(from, min_deals, n) ==
    IF n = 0 THEN from
    ELSE LET near == Within(from, min_deals, n - 1)
         IN  near \cup {OtherEnd(e, f) :
                          <<e, f>> \in {x \in edges \X near :
                                          /\ x[2] \in {x[1].firm_a_id, x[1].firm_b_id}
                                          /\ x[1].deal_count >= min_deals}}

\* C15: whatever max_hops is asked for, the result has no hop list beyond 3,
\* every firm it returns is within 3 edges of the origin firm, and the origin
\* firm is in no hop list.
C15_BoundedTraversal ==
    network.ended = "returned" =>
        \A h \in DOMAIN network.network :
            /\ h <= 3
            /\ \A i \in 1..Len(network.network[h]) :
                  /\ network.network[h][i] # network.firm_id
                  /\ network.network[h][i] \in Within({network.firm_id}, network.min_deals, 3)

\* max_hops above 3 was asked for over a graph with a firm four edges from
\* the origin, and firms three edges away were returned.
C15_Witness ==
    /\ network.ended = "returned"
    /\ network.max_hops > 3
    /\ Within({network.firm_id}, network.min_deals, 4)
           # Within({network.firm_id}, network.min_deals, 3)
    /\ 3 \in DOMAIN network.network
    /\ network.network[3] # <<>>

\* The firms at exactly h edges (of at least min_deals deals) from the origin
\* of the latest query.
AtDistance(h) ==
    Within({network.firm_id}, network.min_deals, h)
        \ Within({network.firm_id}, network.min_deals, h - 1)

\* C25: every firm get_network_hops returns is in exactly one hop list, the
\* list of its shortest-path distance from the origin over the edges with
\* deal_count >= min_deals, and no list is longer than limit_per_hop.
C25_MinimumHopBuckets ==
    network.ended = "returned" =>
        \A h \in DOMAIN network.network :
            /\ Len(network.network[h]) <= network.limit_per_hop
            /\ \A i \in 1..Len(network.network[h]) :
                  /\ network.network[h][i] \in AtDistance(h)
                  /\ \A g \in DOMAIN network.network :
                        \A j \in 1..Len(network.network[g]) :
                            network.network[g][j] = network.network[h][i]
                                => (g = h /\ j = i)

\* C25 witness: two firms of the second hop list are joined by an edge, so
\* each is also reached on a path of three edges.
C25_Witness ==
    /\ network.ended = "returned"
    /\ 3 \in DOMAIN network.network
    /\ Len(network.network[2]) >= 2
    /\ \E e \in edges :
          /\ e.deal_count >= network.min_deals
          /\ e.firm_a_id = network.network[2][1]
          /\ e.firm_b_id = network.network[2][2]

\* The smaller of two numbers.
Min(a, b) == IF a < b THEN a ELSE b

\* C29: each hop list up to the effective max_hops holds limit_per_hop
\* firms, or every firm at that distance when there are fewer: the firms of
\* a nearer hop never empty or shorten a farther hop list.
C29_PerHopLimit ==
    network.ended = "returned" =>
        \A h \in DOMAIN network.network :
            Len(network.network[h])
                = Min(network.limit_per_hop, Cardinality(AtDistance(h)))

(***************************************************************************)
(* Part IV.  Entity resolution (entity_resolution/firm_linker.py; the      *)
(* fund linker has the same code over fund ids)                            *)
(***************************************************************************)
\* bound: firms that occur in matches
MaxEntities == 3
\* bound: length of the match list
MaxMatches == 3
\* default threshold of FirmLinker, in percent
threshold == 80

Entities == 1..MaxEntities

\* The pairs predict_matches can return; match_probability is a property of
\* the pair (in percent, never below the threshold).
match_probability(l, r) == IF l + r = 3 THEN 95 ELSE 85
MatchRows == {m \in [firm_id_l : Entities, firm_id_r : Entities] :
                 m.firm_id_l # m.firm_id_r}
RECURSIVE MatchLists(_)
MatchLists(n) ==
    IF n = 0 THEN {<<>>}
    ELSE MatchLists(n - 1)
         \cup {Append(ms, m) : ms \in {l \in MatchLists(n - 1) : Len(l) = n - 1},
                               m \in MatchRows}

\* The dict parent: keys in insertion order and the value of each key.
EmptyParent == [keys |-> <<>>, of |-> <<>>]
Has(parent, x) == \E i \in 1..Len(parent.keys) : parent.keys[i] = x
\* if x not in parent: parent[x] = x
Enter(parent, x) ==
    IF Has(parent, x) THEN parent
    ELSE [keys |-> Append(parent.keys, x), of |-> parent.of @@ (x :> x)]
RECURSIVE Root(_, _)
Root(of, x) == IF of[x] = x THEN x ELSE Root(of, of[x])
RECURSIVE PathTo(_, _)
PathTo(of, x) == IF of[x] = x THEN {} ELSE {x} \cup PathTo(of, of[x])
\* find(x): enters x when new, returns its root and points every key on the
\* way at the root (parent[x] = find(parent[x])).
find(parent, x) ==
    LET p == Enter(parent, x)
        root == Root(p.of, x)
    IN  [root |-> root,
         parent |-> [p EXCEPT !.of = [k \in DOMAIN p.of |->
                                         IF k \in PathTo(p.of, x) THEN root
                                         ELSE p.of[k]]]]
\* union(x, y): px, py = find(x), find(y); if px != py: parent[px] = py
union_none(parent, x, y) == find(find(parent, x).parent, y).parent
union(parent, x, y) ==
    LET fx == find(parent, x)
        fy == find(fx.parent, y)
    IN  IF fx.root # fy.root
        THEN [fy.parent EXCEPT !.of[fx.root] = fy.root]
        ELSE fy.parent

\* for match in matches: union(match["firm_id_l"], match["firm_id_r"])
RECURSIVE UnionAll(_, _, _)
UnionAll(parent, ms, i) ==
    IF i > Len(ms) THEN parent
    ELSE UnionAll(union(parent, ms[i].firm_id_l, ms[i].firm_id_r), ms, i + 1)

\* cluster_matches(matches): firm_id -> find(firm_id) for every key of parent,
\* in the order of the keys; {} for an empty match list.
ClusterOf(ms) ==
    LET parent == UnionAll(EmptyParent, ms, 1)
    IN  [keys |-> parent.keys,
         of |-> [k \in DOMAIN parent.of |-> Root(parent.of, k)]]

cluster_matches ==
    /\ firm_to_canonical = NULL
    /\ firm_to_canonical' = ClusterOf(matches)
    /\ UNCHANGED <<matches, aliases, written, aliasWrite>>
    /\ UNCHANGED nonResolutionVars

\* The relations of schema preqin that hold aliases (models.py), and the one
\* the INSERT of write_aliases_to_postgres names.
AliasRelations == {"preqin_firm_alias", "preqin_fund_alias"}
AliasInsertTarget == "preqin_firm_aliases"

\* SELECT name FROM firms WHERE id = ?: duplicates of a firm can carry the
\* same name.
NameOf(firm_id) == IF firm_id <= 2 THEN "Acme" ELSE "Beta"

\* confidence.get((firm_id, canonical_id), self.threshold)
Confidence(ms, firm_id, canonical_id) ==
    IF \E i \in 1..Len(ms) :
          {ms[i].firm_id_l, ms[i].firm_id_r} = {firm_id, canonical_id}
    THEN LET last == CHOOSE i \in 1..Len(ms) :
                        /\ {ms[i].firm_id_l, ms[i].firm_id_r} = {firm_id, canonical_id}
                        /\ \A j \in (i + 1)..Len(ms) :
                              {ms[j].firm_id_l, ms[j].firm_id_r} # {firm_id, canonical_id}
         IN  match_probability(ms[last].firm_id_l, ms[last].firm_id_r)
    ELSE threshold

\* The loop of write_aliases_to_postgres from key i on: one INSERT ... ON
\* CONFLICT ... DO UPDATE SET confidence = GREATEST(stored, EXCLUDED) per firm
\* that is not its own canonical firm; an INSERT the server rejects raises
\* and ends the loop, and nothing of the call is committed.
RECURSIVE WriteFrom(_, _)
WriteFrom(i, acc) ==
    IF i > Len(firm_to_canonical.keys) THEN [acc EXCEPT !.ended = "returned"]
    ELSE LET firm_id == firm_to_canonical.keys[i]
             canonical_id == firm_to_canonical.of[firm_id]
             row == [canonical_firm_id |-> canonical_id, alias_name |-> NameOf(firm_id),
                     confidence |-> Confidence(matches, firm_id, canonical_id)]
             old == {a \in acc.rows : /\ a.canonical_firm_id = canonical_id
                                       /\ a.alias_name = NameOf(firm_id)}
         IN  IF firm_id = canonical_id THEN WriteFrom(i + 1, acc)
             ELSE IF AliasInsertTarget \notin AliasRelations
             THEN [acc EXCEPT !.ended = "raised", !.executed = @ \cup {row}]
             ELSE WriteFrom(i + 1,
                     [acc EXCEPT
                        !.executed = @ \cup {row},
                        !.rows = (@ \ old) \cup
                            {[row EXCEPT !.confidence =
                                 IF old = {} THEN row.confidence
                                 ELSE GREATEST((CHOOSE a \in old : TRUE).confidence,
                                               row.confidence)]}])

write_aliases_to_postgres ==
    /\ firm_to_canonical # NULL
    /\ aliasWrite.calls < 2
    /\ LET done == WriteFrom(1, [ended |-> "running", rows |-> aliases,
                                 executed |-> {}])
       IN  /\ aliases' = IF done.ended = "returned" THEN done.rows ELSE aliases
           /\ written' = written \cup done.executed
           /\ aliasWrite' = [ended |-> done.ended, calls |-> aliasWrite.calls + 1,
                             first |-> IF aliasWrite.calls = 0 THEN aliases'
                                       ELSE aliasWrite.first]
    /\ UNCHANGED <<matches, firm_to_canonical>>
    /\ UNCHANGED nonResolutionVars

\* Resolution over any match list.
ResolutionStart ==
    /\ matches \in MatchLists(MaxMatches)
    /\ firm_to_canonical = NULL
    /\ aliases = {}
    /\ written = {}
    /\ aliasWrite = [ended |-> "none", calls |-> 0, first |-> {}]

ResolutionNext == cluster_matches \/ write_aliases_to_postgres

ResolutionSpecInit ==
    IngestInit /\ GoldInit /\ AnalysisInit /\ ResolutionStart /\ SearchIdle
        /\ LaterIdle
ResolutionSpec == ResolutionSpecInit /\ [][ResolutionNext]_vars

\* The entities a chain of matched pairs connects to x.
RECURSIVE Chained(_, _)
Chained(S, n) ==
    IF n = 0 THEN S
    ELSE Chained(S \cup {e \in Entities :
                            \E i \in 1..Len(matches) :
                               /\ e \in {matches[i].firm_id_l, matches[i].firm_id_r}
                               /\ {matches[i].firm_id_l, matches[i].firm_id_r} \cap S # {}},
                 n - 1)
Matched == UNION {{matches[i].firm_id_l, matches[i].firm_id_r} : i \in 1..Len(matches)}

\* C16: the entities of the matches are mapped, and two of them have the same
\* canonical id exactly when a chain of matched pairs connects them.
C16_TransitiveClusters ==
    firm_to_canonical # NULL =>
        /\ DOMAIN firm_to_canonical.of = Matched
        /\ \A a, b \in Matched :
              (firm_to_canonical.of[a] = firm_to_canonical.of[b])
                  <=> (b \in Chained({a}, MaxEntities))

\* The matches hold (A,B) and (B,C) but no pair of A and C, and A, B, C got
\* one canonical id.
C16_Witness ==
    /\ firm_to_canonical # NULL
    /\ \E a, b, c \in Matched :
          /\ a # c
          /\ \E i, j \in 1..Len(matches) :
                /\ matches[i] = [firm_id_l |-> a, firm_id_r |-> b]
                /\ matches[j] = [firm_id_l |-> b, firm_id_r |-> c]
          /\ \A i \in 1..Len(matches) :
                {matches[i].firm_id_l, matches[i].firm_id_r} # {a, c}
          /\ firm_to_canonical.of[a] = firm_to_canonical.of[b]
          /\ firm_to_canonical.of[b] = firm_to_canonical.of[c]

\* The match lists with the same matched pairs: any order, either orientation.
Flip(m) == [firm_id_l |-> m.firm_id_r, firm_id_r |-> m.firm_id_l]
Reorderings(ms) ==
    {o \in [1..Len(ms) -> MatchRows] :
        \E perm \in Permutations(1..Len(ms)) :
            \A i \in 1..Len(ms) : o[i] \in {ms[perm[i]], Flip(ms[perm[i]])}}

\* C17: every reordering and reorientation of the match list is clustered to
\* the same mapping from entity to canonical id.
C17_OrderInvariant ==
    firm_to_canonical # NULL =>
        \A o \in Reorderings(matches) : ClusterOf(o).of = firm_to_canonical.of

\* C18: after alias writes, every alias key an INSERT was executed for has a
\* stored row whose confidence is the largest confidence written for the key,
\* and a second write of the same clustering leaves the rows of the first.
C18_AliasUpsert ==
    aliasWrite.calls >= 1 =>
        /\ \A w \in written :
              \E a \in aliases :
                 /\ a.canonical_firm_id = w.canonical_firm_id
                 /\ a.alias_name = w.alias_name
                 /\ \A v \in written :
                       (v.canonical_firm_id = w.canonical_firm_id
                            /\ v.alias_name = w.alias_name)
                           => a.confidence >= v.confidence
        /\ aliasWrite.calls = 2 => aliases = aliasWrite.first

(***************************************************************************)
(* Part V.  Search (search/hybrid_search.py)                               *)
(***************************************************************************)
\* bound: rows of preqin_entity_doc
MaxDocs == 2
\* weights of the combined score, in tenths
FTS_WEIGHT == 3
SEMANTIC_WEIGHT == 7

\* What a row of preqin_entity_doc is to one query: whether search_vector
\* matches it, its ts_rank, and the similarity 1 - (embedding <=> query) in
\* tenths when the row has an embedding.
DocKinds ==
    {[lexical |-> TRUE, text_score |-> 1, embedding |-> NULL],
     [lexical |-> TRUE, text_score |-> 2, embedding |-> Some(3)],
     [lexical |-> FALSE, text_score |-> 0, embedding |-> Some(9)]}
DocTables ==
    {{[entity_id |-> i, lexical |-> k[i].lexical, text_score |-> k[i].text_score,
       embedding |-> k[i].embedding] : i \in 1..MaxDocs} :
        k \in [1..MaxDocs -> DocKinds]}

\* The two statements hybrid_search chooses between: the rows of the WHERE
\* clause with their combined_score (in tenths of a rank unit).
FtsOnlySelect ==
    {[entity_id |-> d.entity_id, text_score |-> d.text_score,
      semantic_score |-> 0, combined_score |-> 10 * d.text_score] :
        d \in {x \in docs : x.lexical}}
HybridSelect ==
    {[entity_id |-> d.entity_id, text_score |-> d.text_score,
      semantic_score |-> IF d.embedding # NULL THEN d.embedding[1] ELSE 0,
      combined_score |->
          IF d.embedding # NULL
          THEN FTS_WEIGHT * d.text_score + SEMANTIC_WEIGHT * d.embedding[1]
          ELSE 10 * d.text_score] :
        d \in {x \in docs : x.lexical \/ (x.embedding # NULL /\ x.embedding[1] > 6)}}

\* ORDER BY combined_score DESC: the orders the server may return the rows in.
RECURSIVE ByCombinedScore(_)
ByCombinedScore(rows) ==
    IF rows = {} THEN {<<>>}
    ELSE UNION {{<<r>> \o o : o \in ByCombinedScore(rows \ {r})} :
                  r \in {x \in rows :
                           \A y \in rows : x.combined_score >= y.combined_score}}

Running(t, at) == search[t].pc = at

\* hybrid_search(query, use_semantic, limit) is entered on a request thread; a
\* query shorter than two characters returns at once with search_type "none".
BeginSearch(t, short, use_semantic, limit) ==
    /\ Running(t, "idle")
    /\ search' = [search EXCEPT ![t] =
                    IF short
                    THEN [pc |-> "done", ended |-> "returned", short |-> TRUE,
                          use_semantic |-> use_semantic, search_type |-> "none",
                          results |-> <<>>]
                    ELSE [pc |-> "check", short |-> FALSE,
                          use_semantic |-> use_semantic, limit |-> limit,
                          transaction |-> "open"]]
    /\ UNCHANGED <<PGVECTOR_AVAILABLE, extension, docs, probes>>
    /\ UNCHANGED nonSearchVars

\* check_pgvector_available: if _PGVECTOR_AVAILABLE is not None: return it.
CheckCache(t) ==
    /\ Running(t, "check")
    /\ search' = [search EXCEPT ![t] =
                    IF PGVECTOR_AVAILABLE # NULL
                    THEN [@ EXCEPT !.pc = "embed"] @@
                         [pgvector_available |-> PGVECTOR_AVAILABLE]
                    ELSE [@ EXCEPT !.pc = "probe"]]
    /\ UNCHANGED <<PGVECTOR_AVAILABLE, extension, docs, probes>>
    /\ UNCHANGED nonSearchVars

\* The probe SELECT 1 FROM pg_extension WHERE extname = 'vector' and the
\* assignment of the global.  When the statement fails the except branch
\* stores False; the session is not rolled back, so its transaction stays
\* in the failed state.
Probe(t) ==
    /\ Running(t, "probe")
    /\ probes' = probes + 1
    /\ \E fault \in BOOLEAN :
          /\ PGVECTOR_AVAILABLE' = IF fault THEN Some(FALSE) ELSE Some(extension)
          /\ search' = [search EXCEPT ![t].pc = "return",
                                      ![t].transaction =
                                          IF fault THEN "failed" ELSE "open"]
    /\ UNCHANGED <<extension, docs>>
    /\ UNCHANGED nonSearchVars

\* return _PGVECTOR_AVAILABLE: the global is read again.
ReturnFlag(t) ==
    /\ Running(t, "return")
    /\ search' = [search EXCEPT ![t] =
                    [@ EXCEPT !.pc = "embed"] @@
                    [pgvector_available |-> PGVECTOR_AVAILABLE]]
    /\ UNCHANGED <<PGVECTOR_AVAILABLE, extension, docs, probes>>
    /\ UNCHANGED nonSearchVars

\* get_embedding is called when use_semantic and pgvector_available; it
\* returns a vector, or None (no client, no key, or the API call failed).
Embed(t) ==
    /\ Running(t, "embed")
    /\ \E query_embedding \in BOOLEAN :
          /\ query_embedding =>
                (search[t].use_semantic /\ search[t].pgvector_available = Some(TRUE))
          /\ search' = [search EXCEPT ![t] =
                          [@ EXCEPT !.pc = "query"] @@
                          [embedded |-> query_embedding,
                           search_type |-> IF query_embedding THEN "hybrid"
                                           ELSE "fts_only"]]
    /\ UNCHANGED <<PGVECTOR_AVAILABLE, extension, docs, probes>>
    /\ UNCHANGED nonSearchVars

\* session.execute(sql, params) and the result dictionary.  A statement on a
\* session whose transaction has failed raises.
Query(t) ==
    /\ Running(t, "query")
    /\ IF search[t].transaction = "failed"
       THEN search' = [search EXCEPT ![t] =
                          [@ EXCEPT !.pc = "done"] @@
                          [ended |-> "raised", results |-> <<>>]]
       ELSE \E o \in ByCombinedScore(IF search[t].search_type = "hybrid"
                                     THEN HybridSelect ELSE FtsOnlySelect) :
               search' = [search EXCEPT ![t] =
                            [@ EXCEPT !.pc = "done"] @@
                            [ended |-> "returned",
                             results |-> SubSeq(o, 1, IF Len(o) < search[t].limit
                                                      THEN Len(o)
                                                      ELSE search[t].limit)]]
    /\ UNCHANGED <<PGVECTOR_AVAILABLE, extension, docs, probes>>
    /\ UNCHANGED nonSearchVars

\* reset_pgvector_cache()
reset_pgvector_cache ==
    /\ PGVECTOR_AVAILABLE # NULL
    /\ PGVECTOR_AVAILABLE' = NULL
    /\ probes' = 0
    /\ UNCHANGED <<extension, docs, search>>
    /\ UNCHANGED nonSearchVars

\* A process serving one search per request thread, over any documents and
\* with or without the vector extension.
SearchInit ==
    /\ PGVECTOR_AVAILABLE = NULL
    /\ extension \in BOOLEAN
    /\ docs \in DocTables
    /\ probes = 0
    /\ search = [t \in Threads |-> [pc |-> "idle"]]

SearchNext ==
    \/ \E t \in Threads, short \in BOOLEAN, use_semantic \in BOOLEAN,
          limit \in {1, 20} : BeginSearch(t, short, use_semantic, limit)
    \/ \E t \in Threads : CheckCache(t)
    \/ \E t \in Threads : Probe(t)
    \/ \E t \in Threads : ReturnFlag(t)
    \/ \E t \in Threads : Embed(t)
    \/ \E t \in Threads : Query(t)
    \/ reset_pgvector_cache

SearchSpecInit ==
    IngestInit /\ GoldInit /\ AnalysisInit /\ ResolutionInit /\ SearchInit
        /\ LaterIdle
SearchSpec == SearchSpecInit /\ [][SearchNext]_vars

\* C19: a search with use_semantic that found the extension unavailable, or
\* got no embedding, returns with search_type "fts_only", only rows that match
\* lexically, in descending order of text_score.
C19_SearchDegradation ==
    \A t \in Threads :
        (/\ Running(t, "done")
         /\ ~search[t].short
         /\ search[t].use_semantic
         /\ (search[t].pgvector_available # Some(TRUE) \/ ~search[t].embedded))
        => /\ search[t].ended = "returned"
           /\ search[t].search_type = "fts_only"
           /\ \A i \in 1..Len(search[t].results) :
                 \E d \in docs : /\ d.entity_id = search[t].results[i].entity_id
                                 /\ d.lexical
           /\ \A i, j \in 1..Len(search[t].results) :
                 i < j => search[t].results[i].text_score
                              >= search[t].results[j].text_score

\* C20: between two resets of the cache the availability probe is executed
\* at most once, however the searches interleave.
C20_ProbeAtMostOnce == probes <= 1

(***************************************************************************)
(* Part VI.  Cell parsers (pipelines/batch_transforms.py)                  *)
(***************************************************************************)
\* bound: parser calls on one cell
MaxParses == 2
\* floats are held in units of 1/FloatUnit
FloatUnit == 10000

\* Python values a cell can hold.
PyNone == [type |-> "NoneType"]
PyInt(v) == [type |-> "int", v |-> v]
PyFloat(x) == [type |-> "float", special |-> "", x |-> x]
PyNonFinite(k) == [type |-> "float", special |-> k, x |-> 0]
PyStr(s) == [type |-> "str", s |-> s]
NonFinite == {"nan", "inf", "-inf"}
CellTexts ==
    {"", " n/a ", "$1.5B", "abc", "2020-01-15", "15/01/2020", "Vintage 2015",
     "15%", "nan"}
CellValues ==
    {PyNone}
    \cup {PyStr(s) : s \in CellTexts}
    \cup {PyInt(v) : v \in {-5, 0, 1, 50, 150, 1899, 1900, 2020, 2100, 2101}}
    \cup {PyFloat(x) : x \in {1500, 150000, 20205000, -15000}}
    \cup {PyNonFinite(k) : k \in NonFinite}
    \cup {[type |-> "date", iso |-> "2020-01-15"],
          [type |-> "datetime", iso |-> "2020-01-15"]}

Returned(v) == [ended |-> "returned", value |-> v]
Raised(e) == [ended |-> "raised", exception |-> e]

\* str(value).strip()
StrOf(value) ==
    CASE value.type = "str" ->
            (CASE value.s = " n/a " -> "n/a" [] OTHER -> value.s)
      [] value.type = "int" ->
            (CASE value.v = -5 -> "-5" [] value.v = 0 -> "0" [] value.v = 1 -> "1"
               [] value.v = 50 -> "50" [] value.v = 150 -> "150"
               [] value.v = 1899 -> "1899" [] value.v = 1900 -> "1900"
               [] value.v = 2020 -> "2020" [] value.v = 2100 -> "2100"
               [] OTHER -> "2101")
      [] value.type = "float" ->
            (CASE value.special # "" -> value.special
               [] value.x = 1500 -> "0.15" [] value.x = 150000 -> "15.0"
               [] value.x = 20205000 -> "2020.5" [] OTHER -> "-1.5")
      [] value.type = "date" -> value.iso
      [] OTHER -> value.iso \o " 10:00:00"

\* Decimal(cleaned) * multiplier after the currency symbols, the commas and
\* the multiplier suffix are removed; NULL where Decimal raises
\* InvalidOperation.
DecimalOf(value_str) ==
    CASE value_str = "$1.5B" -> Some("1500000000.0")
      [] value_str \in {"abc", "2020-01-15", "15/01/2020", "Vintage 2015", "15%",
                        "2020-01-15 10:00:00"} -> NULL
      [] value_str = "nan" -> Some("NaN")
      [] value_str = "inf" -> Some("Infinity")
      [] value_str = "-inf" -> Some("-Infinity")
      [] OTHER -> Some(value_str)

parse_currency(value) ==
    IF value = PyNone THEN Returned(NULL)
    ELSE LET value_str == StrOf(value) IN
         IF value_str \in {"", "n/a", "na", "-", "undisclosed"} THEN Returned(NULL)
         ELSE IF DecimalOf(value_str) = NULL THEN Returned(NULL)
         ELSE Returned(Some([type |-> "Decimal", repr |-> DecimalOf(value_str)[1]]))

\* datetime.strptime over the ten formats, then the ISO prefix test.
Strptime(value) ==
    CASE value \in {"2020-01-15", "15/01/2020"} -> Some("2020-01-15")
      [] OTHER -> NULL

parse_date(value) ==
    IF value = PyNone THEN Returned(NULL)
    ELSE IF value.type = "str"
    THEN LET stripped == StrOf(value) IN
         IF stripped \in {"", "n/a", "na", "-"} THEN Returned(NULL)
         ELSE IF Strptime(stripped) # NULL
         THEN Returned(Some(PyStr(Strptime(stripped)[1])))
         ELSE Returned(NULL)
    ELSE IF value.type \in {"date", "datetime"}
    THEN Returned(Some(PyStr(value.iso)))
    ELSE Returned(NULL)

\* int(value): truncation toward zero for a finite float, ValueError for NaN,
\* OverflowError for an infinity.
IntOf(value) ==
    IF value.type = "int" THEN Returned(value.v)
    ELSE IF value.special = "nan" THEN Raised("ValueError")
    ELSE IF value.special \in {"inf", "-inf"} THEN Raised("OverflowError")
    ELSE Returned(IF value.x >= 0 THEN value.x \div FloatUnit
                  ELSE -((-value.x) \div FloatUnit))

\* re.search(r'\b(19|20)\d{2}\b', value_str)
YearSearch(value_str) ==
    CASE value_str \in {"2020-01-15", "15/01/2020", "2020-01-15 10:00:00"} ->
            Some(2020)
      [] value_str = "Vintage 2015" -> Some(2015)
      [] OTHER -> NULL

parse_year(value) ==
    IF value = PyNone THEN Returned(NULL)
    ELSE IF value.type \in {"int", "float"}
    THEN LET year == IntOf(value) IN
         IF year.ended = "raised" THEN year
         ELSE IF 1900 <= year.value /\ year.value <= 2100
              THEN Returned(Some(PyInt(year.value)))
              ELSE Returned(NULL)
    ELSE LET match == YearSearch(StrOf(value)) IN
         IF match # NULL THEN Returned(Some(PyInt(match[1]))) ELSE Returned(NULL)

\* float(cleaned) after '%' is removed; NULL where float raises ValueError.
FloatOf(cleaned) ==
    CASE cleaned = "15%" -> Some(PyFloat(15 * FloatUnit))
      [] cleaned = "nan" -> Some(PyNonFinite("nan"))
      [] OTHER -> NULL

parse_percentage(value) ==
    IF value = PyNone THEN Returned(NULL)
    ELSE IF value.type \in {"int", "float"}
    THEN IF value.type = "float" /\ value.special # "" THEN Returned(NULL)
         ELSE LET x == IF value.type = "int" THEN value.v * FloatUnit ELSE value.x IN
              IF -FloatUnit <= x /\ x <= FloatUnit THEN Returned(Some(PyFloat(x)))
              ELSE IF -100 * FloatUnit <= x /\ x <= 100 * FloatUnit
              THEN Returned(Some(PyFloat(x \div 100)))
              ELSE Returned(NULL)
    ELSE LET value_str == StrOf(value) IN
         IF value_str \in {"", "n/a", "na", "-"} THEN Returned(NULL)
         ELSE LET num == FloatOf(value_str) IN
              IF num = NULL THEN Returned(NULL)
              ELSE IF num[1].special # "" THEN Returned(num)
              ELSE IF -100 * FloatUnit <= num[1].x /\ num[1].x <= 200 * FloatUnit
              THEN Returned(Some(PyFloat(num[1].x \div 100)))
              ELSE Returned(num)

Parsers == {"parse_currency", "parse_date", "parse_year", "parse_percentage"}
Apply(fn, value) ==
    CASE fn = "parse_currency" -> parse_currency(value)
      [] fn = "parse_date" -> parse_date(value)
      [] fn = "parse_year" -> parse_year(value)
      [] OTHER -> parse_percentage(value)

\* One parser is called on the cell.
Parse(fn) ==
    /\ parses < MaxParses
    /\ parses' = parses + 1
    /\ parseCall' = [fn |-> fn] @@ Apply(fn, cell)
    /\ UNCHANGED cell
    /\ UNCHANGED nonParseVars

ParseInit ==
    /\ cell \in CellValues
    /\ parseCall = [fn |-> "none"]
    /\ parses = 0

ParseNext == \E fn \in Parsers : Parse(fn)

ParseSpecInit ==
    IngestInit /\ GoldInit /\ AnalysisInit /\ ResolutionInit /\ SearchIdle
        /\ ParseInit /\ ColumnIdle /\ EmbedIdle
ParseSpec == ParseSpecInit /\ [][ParseNext]_vars

\* C21: the four parsers are total: every call returns a typed value or None
\* and never raises.
C21_ParsersTotal ==
    parseCall.fn # "none" => parseCall.ended = "returned"

(***************************************************************************)
(* Part VII.  Custom columns of an export session (clean_data/routes.py)   *)
(***************************************************************************)
\* bound: custom columns of the session
MaxColumns == 3

ColumnNames == {"CEO Name", "CEO Name 2", "!!"}

\* re.sub(r'[^a-zA-Z0-9]+', '_', name.lower()).strip('_')
SnakeCase(name) ==
    CASE name = "CEO Name" -> "ceo_name"
      [] name = "CEO Name 2" -> "ceo_name_2"
      [] OTHER -> ""

\* f"{key}_{counter}"
Suffixed(key, counter) ==
    key \o "_" \o (CASE counter = 2 -> "2" [] counter = 3 -> "3"
                     [] counter = 4 -> "4" [] counter = 5 -> "5"
                     [] OTHER -> "6")

\* The key is used as it is, taken or not.
generate_column_key_plain(name, existing_keys) == SnakeCase(name)

generate_column_key(name, existing_keys) ==
    LET key == SnakeCase(name) IN
    IF key \notin existing_keys THEN key
    ELSE LET counter == CHOOSE c \in 2..(MaxColumns + 2) :
                 /\ Suffixed(key, c) \notin existing_keys
                 /\ \A b \in 2..(c - 1) : Suffixed(key, b) \in existing_keys
         IN Suffixed(key, counter)

KeysOf(columns) == {columns[i].key : i \in 1..Len(columns)}

\* POST /exports/{export_id}/columns
add_custom_column(name) ==
    /\ Len(custom_columns) < MaxColumns
    /\ LET key == generate_column_key(name, KeysOf(custom_columns)) IN
          /\ custom_columns' = Append(custom_columns, [key |-> key, name |-> name])
          /\ request' = [op |-> "add", name |-> name, status |-> 200, key |-> key]
    /\ UNCHANGED nonColumnVars

\* DELETE /exports/{export_id}/columns/{column_key}
delete_custom_column(column_key) ==
    /\ LET updated_columns ==
               SelectSeq(custom_columns, LAMBDA col : col.key # column_key)
           found == Len(updated_columns) # Len(custom_columns)
       IN /\ custom_columns' = IF found THEN updated_columns ELSE custom_columns
          /\ request' = [op |-> "delete", name |-> "",
                         status |-> IF found THEN 200 ELSE 404,
                         key |-> column_key]
    /\ UNCHANGED nonColumnVars

\* PATCH /exports/{export_id}/columns/{column_key}; the name "" stands for
\* an update without a name.  The dictionaries of the loaded list are
\* changed in place, so whether the commit writes the new name depends on
\* the change tracking of the column type; the response carries it.
update_custom_column(column_key, name) ==
    /\ LET found == column_key \in KeysOf(custom_columns)
           updated_columns ==
               [i \in 1..Len(custom_columns) |->
                   IF custom_columns[i].key = column_key /\ name # ""
                   THEN [custom_columns[i] EXCEPT !.name = name]
                   ELSE custom_columns[i]]
           found_column == CHOOSE col \in {updated_columns[i] :
                                             i \in 1..Len(updated_columns)} :
                               col.key = column_key
       IN \E tracked \in BOOLEAN :
             /\ custom_columns' = IF found /\ tracked THEN updated_columns
                                  ELSE custom_columns
             /\ request' = IF found
                           THEN [op |-> "update", name |-> found_column.name,
                                 status |-> 200, key |-> found_column.key]
                           ELSE [op |-> "update", name |-> name,
                                 status |-> 404, key |-> column_key]
    /\ UNCHANGED nonColumnVars

ColumnKeys == {"ceo_name", "ceo_name_2", "missing"}

ColumnNext ==
    \/ \E name \in ColumnNames : add_custom_column(name)
    \/ \E column_key \in ColumnKeys : delete_custom_column(column_key)
    \/ \E column_key \in ColumnKeys, name \in ColumnNames \cup {""} :
          update_custom_column(column_key, name)

ColumnSpecInit ==
    IngestInit /\ GoldInit /\ AnalysisInit /\ ResolutionInit /\ SearchIdle
        /\ ParseIdle /\ ColumnIdle /\ EmbedIdle
ColumnSpec == ColumnSpecInit /\ [][ColumnNext]_vars

Distinct(columns) ==
    \A i, j \in 1..Len(columns) : columns[i].key = columns[j].key => i = j

\* What one request does to the keys.
AddedKey ==
    LET base == SnakeCase(request'.name)
        existing == KeysOf(custom_columns)
    IN /\ request'.key \notin existing
       /\ KeysOf(custom_columns') = existing \cup {request'.key}
       /\ IF base \notin existing THEN request'.key = base
          ELSE \E c \in 2..(MaxColumns + 2) :
                  /\ request'.key = Suffixed(base, c)
                  /\ \A b \in 2..(c - 1) : Suffixed(base, b) \in existing
RenamedKey ==
    /\ [i \in 1..Len(custom_columns') |-> custom_columns'[i].key]
         = [i \in 1..Len(custom_columns) |-> custom_columns[i].key]
    /\ request'.status = 200 => request'.key \in KeysOf(custom_columns)
DeletedKey ==
    IF request'.key \in KeysOf(custom_columns)
    THEN request'.status = 200
         /\ KeysOf(custom_columns') = KeysOf(custom_columns) \ {request'.key}
    ELSE request'.status = 404 /\ custom_columns' = custom_columns

MaxEmbedDocs == 4
MaxBatchSize == 2

EmbedDocIds == 1..MaxEmbedDocs

\* The documents 1..3 describe firms, the last one a fund; no company has a
\* document.
entity_type_of(d) == IF d < MaxEmbedDocs THEN "firm" ELSE "fund"

\* The default of the entity_types argument.
entity_types == <<"firm", "fund", "company">>

\* The orders in which a SELECT without ORDER BY may return the rows S.
Orderings(S) ==
    {o \in [1..Cardinality(S) -> S] : \A a, b \in DOMAIN o : o[a] = o[b] => a = b}

\* SELECT id, doc_text ... WHERE entity_type = :entity_type AND embedding IS
\* NULL [LIMIT limit]: a falsy limit (None, 0) adds no LIMIT clause.
WithoutEmbedding(entity_type, limit) ==
    LET rows == {d \in DOMAIN entity_doc :
                    entity_type_of(d) = entity_type /\ ~entity_doc[d]}
    IN {IF limit = 0 THEN o ELSE SubSeq(o, 1, Min(limit, Len(o))) :
           o \in Orderings(rows)}

\* docs[i:i + batch_size], with the 0-based i of the code.
BatchOf(c) == SubSeq(c.docs, c.i + 1, Min(c.i + c.batch_size, Len(c.docs)))

\* counts[entity_type] = count, and on to the next entity type.  The
\* statements of an uncommitted batch are gone with the rollback.
NextType(c, count) ==
    [c EXCEPT !.counts = Append(@, count), !.type_idx = @ + 1, !.pc = "fetch",
              !.docs = <<>>, !.i = 0, !.j = 0, !.count = 0, !.pending = {}]

\* except Exception: session.rollback(); break, then counts[entity_type] =
\* count with whatever count holds at that point.
Failed(c) == NextType(c, c.count)

\* The call starts: client and session are created, counts = {}.
generate_embeddings(batch_size, limit) ==
    /\ embedCall.pc \in {"idle", "returned"}
    /\ embedCall' = [pc |-> "fetch", batch_size |-> batch_size, limit |-> limit,
                     type_idx |-> 1, docs |-> <<>>, i |-> 0, j |-> 0,
                     count |-> 0, counts |-> <<>>, pending |-> {},
                     committed |-> {}]
    /\ UNCHANGED entity_doc
    /\ UNCHANGED nonEmbedVars

\* The head of the loop over entity_types: fetch the documents without an
\* embedding; none -> counts[entity_type] = 0 and continue.
FetchDocs ==
    /\ embedCall.pc = "fetch"
    /\ embedCall.type_idx <= Len(entity_types)
    /\ \E fetched \in WithoutEmbedding(entity_types[embedCall.type_idx],
                                       embedCall.limit) :
          embedCall' = IF fetched = <<>>
                       THEN NextType(embedCall, 0)
                       ELSE [embedCall EXCEPT !.docs = fetched, !.count = 0,
                                              !.i = 0, !.pc = "create"]
    /\ UNCHANGED entity_doc
    /\ UNCHANGED nonEmbedVars

\* client.embeddings.create for the batch: it answers or raises.
CreateEmbeddings ==
    /\ embedCall.pc = "create"
    /\ \E ok \in BOOLEAN :
          embedCall' = IF ok
                       THEN [embedCall EXCEPT !.pc = "update", !.j = 0]
                       ELSE Failed(embedCall)
    /\ UNCHANGED entity_doc
    /\ UNCHANGED nonEmbedVars

\* One UPDATE ... SET embedding of the batch, followed by count += 1; the
\* statement may raise.
ExecuteUpdate ==
    /\ embedCall.pc = "update"
    /\ LET batch == BatchOf(embedCall)
           j == embedCall.j + 1
       IN \E ok \in BOOLEAN :
             embedCall' =
                 IF ok
                 THEN [embedCall EXCEPT
                          !.pending = @ \cup {batch[j]},
                          !.count = @ + 1,
                          !.j = j,
                          !.pc = IF j = Len(batch) THEN "commit" ELSE "update"]
                 ELSE Failed(embedCall)
    /\ UNCHANGED entity_doc
    /\ UNCHANGED nonEmbedVars

\* session.commit() of the batch, which may raise; after the last batch
\* counts[entity_type] = count.
CommitBatch ==
    /\ embedCall.pc = "commit"
    /\ \E ok \in BOOLEAN :
          IF ok
          THEN LET i == embedCall.i + embedCall.batch_size
                   c == [embedCall EXCEPT
                            !.committed = @ \cup embedCall.pending,
                            !.pending = {},
                            !.i = i]
               IN /\ entity_doc' = [d \in DOMAIN entity_doc |->
                                       entity_doc[d] \/ d \in embedCall.pending]
                  /\ embedCall' = IF i >= Len(embedCall.docs)
                                  THEN NextType(c, c.count)
                                  ELSE [c EXCEPT !.pc = "create"]
          ELSE /\ entity_doc' = entity_doc
               /\ embedCall' = Failed(embedCall)
    /\ UNCHANGED nonEmbedVars

\* return counts, after the last entity type.
ReturnCounts ==
    /\ embedCall.pc = "fetch"
    /\ embedCall.type_idx > Len(entity_types)
    /\ embedCall' = [embedCall EXCEPT !.pc = "returned"]
    /\ UNCHANGED entity_doc
    /\ UNCHANGED nonEmbedVars

EmbedInit ==
    /\ entity_doc \in [EmbedDocIds -> BOOLEAN]
    /\ embedCall = [pc |-> "idle"]

EmbedNext ==
    \/ \E batch_size \in 1..MaxBatchSize, limit \in 0..1 :
          generate_embeddings(batch_size, limit)
    \/ FetchDocs
    \/ CreateEmbeddings
    \/ ExecuteUpdate
    \/ CommitBatch
    \/ ReturnCounts

EmbedSpecInit ==
    IngestInit /\ GoldInit /\ AnalysisInit /\ ResolutionInit /\ SearchIdle
        /\ ParseIdle /\ ColumnIdle /\ EmbedInit
EmbedSpec == EmbedSpecInit /\ [][EmbedNext]_vars

\* The documents of one entity type whose embedding the call committed.
CommittedOf(entity_type) ==
    {d \in embedCall.committed : entity_type_of(d) = entity_type}

=============================================================================
